---------------------------- MODULE Spec2Model ----------------------------
(***************************************************************************)
(* A model of the provider resolution subsystem of oni: the provider ID    *)
(* cache (providers/cache.go), the provider registry, the per-site          *)
(* providers and the orchestrator App.fetchAndPlayEpisode.                  *)
(*                                                                         *)
(* Go strings are modelled as sequences of tokens.  A token is a TLA+      *)
(* string standing for one character, or for a run of characters that the  *)
(* code never looks inside (a formatted timestamp, a host name).  The pipe *)
(* character, which cache.go splits on, is always a token of its own.      *)
(***************************************************************************)
EXTENDS Integers, Sequences, FiniteSets, TLC

VARIABLES
    \* ---- providers/cache.go: package state and its environment
    cacheInitialized,   \* var cacheInitialized bool
    cacheFile,          \* var cacheFile *ini.File  ([nil, sections])
    disk,               \* ~/.oni/provider_cache.ini ([exists, sections])
    homeOK,             \* whether os.UserHomeDir / MkdirAll succeed
    diskOK,             \* whether the cache file can be written
    now,                \* the latest reading of the wall clock
    \* ---- a driver calling the cache operations directly
    lastOp,             \* the cache operation that returned last
    prevOp,             \* the one before it
    nOps,               \* how many operations have run
    \* ---- AllAnimeProvider.selectQuality called on its own
    qLinks,             \* links map[string]string
    qPreferred,         \* preferredQuality
    qCall,              \* the call: [state, order, url]
    \* ---- AllAnimeProvider.decodeProviderID called on its own
    dEncoded,           \* encoded
    dCall,              \* the call: [state, decoded]
    \* ---- App.fetchAndPlayEpisode (main.go) and the providers it calls
    build,              \* which GetProvider of unnamed/part_010 is compiled in
    cfgProvider,        \* a.cfg.Provider.Provider
    cfgQuality,         \* a.cfg.Provider.Quality
    selectedAnime,      \* a.selectedAnime: [nil, ID, Title]
    pc,                 \* where the command is
    prov,               \* prov
    epInfo,             \* epInfo
    playMsg,            \* the PlayEpisodeResultMsg the command returns
    events,             \* requests and steps of the resolution, in order
    cacheAtStart,       \* rows of the cache when the resolution started
    nResolutions,       \* resolutions started
    callErr,            \* err of the last provider call: [op, err]
    \* ---- AllAnimeProvider.extractLinks
    respStr,            \* respStr: source name -> encoded id
    pending,            \* goroutines started that have not sent yet
    results,            \* the channel results
    received,           \* the results the collecting loop has taken, in order
    allLinks,           \* allLinks
    bodyStr,            \* bodyStr of the branches that have read their answer
    ctx,                \* ctx: [done, contributed], contributed = whether a
                        \* branch had an answer with links when it was cancelled
    \* ---- two calls of SaveProviderMapping running at once
    wpc,                \* where each call is
    wbuf,               \* the bytes each call's SaveTo has serialised
    keyList,            \* the keys of the section in the order they were added
    fileData,           \* the cache file as bytes: [exists, data]
    \* ---- player/history.go: the watch history and a driver of its operations
    historyFile,        \* ~/.oni/history.txt and incognito_history.txt: incognito -> [exists, data]
    hLast,              \* the history operation that returned last, and what Load gave before it
    nHist,              \* how many history operations have run
    \* ---- main.go: App.Update and the autoplay flow
    app,                \* the App a: state, currentModel, selectedAnime, selectedEp,
                        \* autoplayMode, lastAnimeID, err
    cmds,               \* fetchAndPlayEpisode commands returned by Update, not yet run
    msgs,               \* messages on their way to Update
    started,            \* the resolutions the commands have started
    lastUpdate          \* what the last Update did: [msg, menu], and the counts
                        \* of playbacks and of commands so far: [played, issued]

cacheVars == <<cacheInitialized, cacheFile, disk, homeOK, diskOK, now>>
driverVars == <<lastOp, prevOp, nOps>>
qualityVars == <<qLinks, qPreferred, qCall>>
decodeVars == <<dEncoded, dCall>>
appVars == <<build, cfgProvider, cfgQuality, selectedAnime, pc, prov, epInfo,
             playMsg, events, cacheAtStart, nResolutions, callErr>>
mirrorVars == <<respStr, pending, results, received, allLinks, bodyStr, ctx>>
writerVars == <<wpc, wbuf, keyList, fileData>>
historyVars == <<historyFile, hLast, nHist>>
autoplayVars == <<app, cmds, msgs, started, lastUpdate>>

---------------------------------------------------------------------------
\* Bounds of the model

\* Seconds the clock can reach.
MaxTime == 1
\* Cache operations the driver issues in one run.
MaxOps == 2
\* Quality labels in a link map handed to selectQuality.
MaxLabels == 3
\* Two-character tokens in an encoded id spelling a path around /clock.
MaxTokens == 6
\* Two-character tokens in an encoded id drawn from the whole table.
MaxShort == 2
\* Two-character tokens that follow an encoded /clock.
MaxTail == 2
\* Resolutions (fetchAndPlayEpisode commands) in one run of the program.
MaxResolutions == 2

---------------------------------------------------------------------------
\* Strings

Pipe == "|"

\* The Go nil error.
NilErr == "nil"

\* strings.Split(s, "|"): the fields between the pipes, at least one.
RECURSIVE SplitPipe(_)
SplitPipe(s) ==
    IF \A i \in 1..Len(s) : s[i] # Pipe
    THEN <<s>>
    ELSE LET i == CHOOSE j \in 1..Len(s) :
                      /\ s[j] = Pipe
                      /\ \A k \in 1..(j - 1) : s[k] # Pipe
         IN  <<SubSeq(s, 1, i - 1)>> \o SplitPipe(SubSeq(s, i + 1, Len(s)))

\* fmt.Sprintf("%d", mediaID): the row key of a media id.
KeyOf(mediaID) == ToString(mediaID)

---------------------------------------------------------------------------
\* Time.  A time is [sec, frac]: whole seconds and whether there is a
\* non-zero sub-second part.

Times == [sec : 0..MaxTime, frac : {0, 1}]
ZeroTime == [sec |-> 0, frac |-> 0]

\* t.UTC().Format(time.RFC3339): second precision, the fraction is dropped.
FormatRFC3339(t) == <<"Z" \o ToString(t.sec)>>

\* The layout "2006-01-02T15:04:05" (no zone) of a whole second.
FormatLegacy(sec) == <<"L" \o ToString(sec)>>

\* time.Parse(layout, s): [ok, t].
ParseRFC3339(s) ==
    IF \E n \in 0..(MaxTime + 1) : s = FormatRFC3339([sec |-> n, frac |-> 0])
    THEN [ok |-> TRUE,
          t |-> [sec |-> CHOOSE n \in 0..(MaxTime + 1) :
                             s = FormatRFC3339([sec |-> n, frac |-> 0]),
                 frac |-> 0]]
    ELSE [ok |-> FALSE, t |-> ZeroTime]

ParseLegacy(s) ==
    IF \E n \in 0..(MaxTime + 1) : s = FormatLegacy(n)
    THEN [ok |-> TRUE,
          t |-> [sec |-> CHOOSE n \in 0..(MaxTime + 1) : s = FormatLegacy(n),
                 frac |-> 0]]
    ELSE [ok |-> FALSE, t |-> ZeroTime]

---------------------------------------------------------------------------
\* providers/cache.go

\* An *ini.File: nil, or sections of rows (key -> value).
NilFile == [nil |-> TRUE, sections |-> <<>>]
IniFile(secs) == [nil |-> FALSE, sections |-> secs]

\* The file on disk: missing, or sections of rows.
NoDisk == [exists |-> FALSE, sections |-> <<>>]
DiskFile(secs) == [exists |-> TRUE, sections |-> secs]

NoEntry == [ProviderID |-> <<>>, Title |-> <<>>, LastUsed |-> ZeroTime]

\* What an operation on the cache hands back: kind is "entry", "absent",
\* "ok", "error" or "panic" (a nil *ini.File dereferenced).
Outcome(kind, entry, err) == [kind |-> kind, entry |-> entry, err |-> err]

\* getCachePath: fails when the home directory cannot be determined or
\* ~/.oni cannot be created.
getCachePath(home) == IF home THEN NilErr ELSE "no home directory"

\* initCache: [inited, file, err].  cacheInitialized is set before the path
\* is looked up, so a failed first call leaves cacheFile nil for good.
initCache(inited, file, dsk, home) ==
    IF inited
    THEN [inited |-> TRUE, file |-> file, err |-> NilErr]
    ELSE IF getCachePath(home) # NilErr
    THEN [inited |-> TRUE, file |-> file, err |-> getCachePath(home)]
    ELSE [inited |-> TRUE,
          file |-> IF dsk.exists THEN IniFile(dsk.sections) ELSE IniFile(<<>>),
          err |-> NilErr]

\* section.Key(key): the row, created empty when it does not exist.
SectionKey(secs, provider, key) ==
    IF key \in DOMAIN secs[provider]
    THEN secs
    ELSE [secs EXCEPT ![provider] = @ @@ (key :> <<>>)]

\* ParseEntry with a row of the wrong shape read as a default entry.
ParseEntryDefault(value) ==
    LET parts == SplitPipe(value)
    IN  IF Len(parts) # 3
        THEN Outcome("entry", NoEntry, NilErr)
        ELSE LET rfc == ParseRFC3339(parts[3])
                 leg == ParseLegacy(parts[3])
             IN  IF ~rfc.ok /\ ~leg.ok
                 THEN Outcome("error", NoEntry, "invalid timestamp format")
                 ELSE Outcome("entry",
                              [ProviderID |-> parts[1], Title |-> parts[2],
                               LastUsed |-> IF rfc.ok THEN rfc.t ELSE leg.t],
                              NilErr)

\* The parse of a row's value (cache.go lines 76-95).
ParseEntry(value) ==
    LET parts == SplitPipe(value)
    IN  IF Len(parts) # 3
        THEN Outcome("error", NoEntry, "invalid cache entry format")
        ELSE LET rfc == ParseRFC3339(parts[3])
                 leg == ParseLegacy(parts[3])
             IN  IF ~rfc.ok /\ ~leg.ok
                 THEN Outcome("error", NoEntry, "invalid timestamp format")
                 ELSE Outcome("entry",
                              [ProviderID |-> parts[1], Title |-> parts[2],
                               LastUsed |-> IF rfc.ok THEN rfc.t ELSE leg.t],
                              NilErr)

\* LoadProviderMapping: [inited, file, out].
LoadProviderMapping(inited, file, dsk, home, provider, mediaID) ==
    LET ic == initCache(inited, file, dsk, home)
        key == KeyOf(mediaID)
    IN  IF ic.err # NilErr
        THEN [inited |-> ic.inited, file |-> ic.file,
              out |-> Outcome("error", NoEntry, ic.err)]
        ELSE IF ic.file.nil
        THEN [inited |-> ic.inited, file |-> ic.file,
              out |-> Outcome("panic", NoEntry, "nil pointer dereference")]
        ELSE IF provider \notin DOMAIN ic.file.sections
        THEN [inited |-> ic.inited, file |-> ic.file,
              out |-> Outcome("absent", NoEntry, NilErr)]
        ELSE LET secs == SectionKey(ic.file.sections, provider, key)
                 value == secs[provider][key]
             IN  [inited |-> ic.inited, file |-> IniFile(secs),
                  out |-> IF value = <<>>
                          THEN Outcome("absent", NoEntry, NilErr)
                          ELSE ParseEntry(value)]

\* The row value SaveProviderMapping writes (cache.go lines 114-115).
EntryValue(providerID, title, t) ==
    providerID \o <<Pipe>> \o title \o <<Pipe>> \o FormatRFC3339(t)

\* A SaveTo that leaves an existing file on disk as it is.
SaveToKeep(file, dsk, fsOK) ==
    IF fsOK /\ ~dsk.exists THEN DiskFile(file.sections) ELSE dsk

\* cacheFile.SaveTo(cachePath): the whole in-memory file replaces the file
\* on disk, unless the write fails (fsOK false).
SaveTo(file, dsk, fsOK) == IF fsOK THEN DiskFile(file.sections) ELSE dsk

\* SaveProviderMapping: [inited, file, disk, out].
SaveProviderMapping(inited, file, dsk, home, fsOK, provider, mediaID, providerID, title, t) ==
    LET ic == initCache(inited, file, dsk, home)
        key == KeyOf(mediaID)
    IN  IF ic.err # NilErr
        THEN [inited |-> ic.inited, file |-> ic.file, disk |-> dsk,
              out |-> Outcome("error", NoEntry, ic.err)]
        ELSE IF ic.file.nil
        THEN [inited |-> ic.inited, file |-> ic.file, disk |-> dsk,
              out |-> Outcome("panic", NoEntry, "nil pointer dereference")]
        ELSE LET secs0 == IF provider \in DOMAIN ic.file.sections
                          THEN ic.file.sections
                          ELSE ic.file.sections @@ (provider :> <<>>)
                 secs1 == SectionKey(secs0, provider, key)
                 secs2 == [secs1 EXCEPT ![provider][key] =
                               EntryValue(providerID, title, t)]
             IN  [inited |-> ic.inited, file |-> IniFile(secs2),
                  disk |-> SaveTo(IniFile(secs2), dsk, fsOK),
                  out |-> IF fsOK
                          THEN Outcome("ok", NoEntry, NilErr)
                          ELSE Outcome("error", NoEntry, "write failed")]

\* section.DeleteKey(key)
DeleteKey(secs, provider, key) ==
    [secs EXCEPT ![provider] =
        [k \in (DOMAIN secs[provider]) \ {key} |-> secs[provider][k]]]

\* ClearProviderMapping: [inited, file, disk, out].
ClearProviderMapping(inited, file, dsk, home, fsOK, provider, mediaID) ==
    LET ic == initCache(inited, file, dsk, home)
        key == KeyOf(mediaID)
    IN  IF ic.err # NilErr
        THEN [inited |-> ic.inited, file |-> ic.file, disk |-> dsk,
              out |-> Outcome("error", NoEntry, ic.err)]
        ELSE IF ic.file.nil
        THEN [inited |-> ic.inited, file |-> ic.file, disk |-> dsk,
              out |-> Outcome("panic", NoEntry, "nil pointer dereference")]
        ELSE IF provider \notin DOMAIN ic.file.sections
        THEN [inited |-> ic.inited, file |-> ic.file, disk |-> dsk,
              out |-> Outcome("ok", NoEntry, NilErr)]
        ELSE LET secs == DeleteKey(ic.file.sections, provider, key)
             IN  [inited |-> ic.inited, file |-> IniFile(secs),
                  disk |-> SaveTo(IniFile(secs), dsk, fsOK),
                  out |-> IF fsOK
                          THEN Outcome("ok", NoEntry, NilErr)
                          ELSE Outcome("error", NoEntry, "write failed")]

\* ClearAllProviderMappings: os.Remove(cachePath); the in-memory file is
\* not touched.  [disk, out].
ClearAllProviderMappings(dsk, home) ==
    IF getCachePath(home) # NilErr
    THEN [disk |-> dsk, out |-> Outcome("error", NoEntry, getCachePath(home))]
    ELSE IF ~dsk.exists
    THEN [disk |-> dsk, out |-> Outcome("error", NoEntry, "no such file")]
    ELSE [disk |-> NoDisk, out |-> Outcome("ok", NoEntry, NilErr)]

---------------------------------------------------------------------------
\* A driver of the cache: any caller of the four operations, one call at a
\* time, with the clock advancing in between.

CacheProviders == {"hdrezka", "aniworld"}
MediaIDs == {1, 2}
\* Provider-internal ids: a plain one, and the composite "mediaType|episodeID"
\* that hdrezka.go line 111 builds.
ProviderIDs == {<<"a">>, <<"series", Pipe, "e">>}
Titles == {<<"t">>, <<>>}

\* Cache files a run can start from: none, one written by an earlier run,
\* and one edited by hand (a two-field row, an empty row, a legacy
\* timestamp, an unparseable timestamp).
DiskFiles ==
    { NoDisk,
      DiskFile("aniworld" :> ("1" :> <<"a", Pipe, "t", Pipe, "Z0">>)),
      DiskFile(("aniworld" :> (("1" :> <<"a", Pipe, "t">>) @@ ("2" :> <<>>)))
               @@ ("hdrezka" :> (("1" :> <<"a", Pipe, "t", Pipe, "L1">>)
                                 @@ ("2" :> <<"a", Pipe, "t", Pipe, "x">>)))) }

NoOp == [op |-> "none", provider |-> "", mediaID |-> 0, providerID |-> <<>>,
         title |-> <<>>, at |-> ZeroTime, out |-> Outcome("ok", NoEntry, NilErr),
         rowBefore |-> FALSE]

\* Whether the in-memory file holds a row for the key (of any value).
HasRow(file, provider, mediaID) ==
    /\ ~file.nil
    /\ provider \in DOMAIN file.sections
    /\ KeyOf(mediaID) \in DOMAIN file.sections[provider]

\* The value of that row.
RowValue(file, provider, mediaID) == file.sections[provider][KeyOf(mediaID)]

Running == nOps < MaxOps /\ lastOp.out.kind # "panic"

InitCacheState ==
    /\ cacheInitialized = FALSE
    /\ cacheFile = NilFile
    /\ disk \in DiskFiles
    /\ homeOK \in BOOLEAN
    /\ diskOK \in BOOLEAN
    /\ now = ZeroTime


\* time.Now(): the clock never runs backwards; a reading is the previous
\* one or a later one.
Later(t) ==
    {t} \cup
    (IF t.frac = 0 THEN {[t EXCEPT !.frac = 1]} ELSE {}) \cup
    (IF t.sec < MaxTime THEN {[sec |-> t.sec + 1, frac |-> 0]} ELSE {})

CacheLoad(provider, mediaID) ==
    /\ Running
    /\ LET r == LoadProviderMapping(cacheInitialized, cacheFile, disk, homeOK,
                                    provider, mediaID)
           ic == initCache(cacheInitialized, cacheFile, disk, homeOK)
       IN  /\ cacheInitialized' = r.inited
           /\ cacheFile' = r.file
           /\ lastOp' = [op |-> "Load", provider |-> provider, mediaID |-> mediaID,
                         providerID |-> <<>>, title |-> <<>>, at |-> now,
                         out |-> r.out,
                         rowBefore |-> HasRow(ic.file, provider, mediaID)]
    /\ prevOp' = lastOp
    /\ nOps' = nOps + 1
    /\ UNCHANGED <<disk, homeOK, diskOK, now>>
    /\ UNCHANGED <<qualityVars, decodeVars, appVars, mirrorVars, writerVars, historyVars, autoplayVars>>

CacheSave(provider, mediaID, providerID, title, t) ==
    /\ Running
    /\ LET r == SaveProviderMapping(cacheInitialized, cacheFile, disk, homeOK, diskOK,
                                    provider, mediaID, providerID, title, t)
           ic == initCache(cacheInitialized, cacheFile, disk, homeOK)
       IN  /\ cacheInitialized' = r.inited
           /\ cacheFile' = r.file
           /\ disk' = r.disk
           /\ lastOp' = [op |-> "Save", provider |-> provider, mediaID |-> mediaID,
                         providerID |-> providerID, title |-> title, at |-> t,
                         out |-> r.out,
                         rowBefore |-> HasRow(ic.file, provider, mediaID)]
    /\ now' = t
    /\ prevOp' = lastOp
    /\ nOps' = nOps + 1
    /\ UNCHANGED <<homeOK, diskOK>>
    /\ UNCHANGED <<qualityVars, decodeVars, appVars, mirrorVars, writerVars, historyVars, autoplayVars>>

CacheClear(provider, mediaID) ==
    /\ Running
    /\ LET r == ClearProviderMapping(cacheInitialized, cacheFile, disk, homeOK, diskOK,
                                     provider, mediaID)
           ic == initCache(cacheInitialized, cacheFile, disk, homeOK)
       IN  /\ cacheInitialized' = r.inited
           /\ cacheFile' = r.file
           /\ disk' = r.disk
           /\ lastOp' = [op |-> "Clear", provider |-> provider, mediaID |-> mediaID,
                         providerID |-> <<>>, title |-> <<>>, at |-> now,
                         out |-> r.out,
                         rowBefore |-> HasRow(ic.file, provider, mediaID)]
    /\ prevOp' = lastOp
    /\ nOps' = nOps + 1
    /\ UNCHANGED <<homeOK, diskOK, now>>
    /\ UNCHANGED <<qualityVars, decodeVars, appVars, mirrorVars, writerVars, historyVars, autoplayVars>>

CacheClearAll ==
    /\ Running
    /\ LET r == ClearAllProviderMappings(disk, homeOK)
       IN  /\ disk' = r.disk
           /\ lastOp' = [NoOp EXCEPT !.op = "ClearAll", !.at = now, !.out = r.out]
    /\ prevOp' = lastOp
    /\ nOps' = nOps + 1
    /\ UNCHANGED <<cacheInitialized, cacheFile, homeOK, diskOK, now>>
    /\ UNCHANGED <<qualityVars, decodeVars, appVars, mirrorVars, writerVars, historyVars, autoplayVars>>

NextCache ==
    \/ \E p \in CacheProviders, m \in MediaIDs : CacheLoad(p, m)
    \/ \E p \in CacheProviders, m \in MediaIDs, i \in ProviderIDs, ti \in Titles,
          t \in Later(now) : CacheSave(p, m, i, ti, t)
    \/ \E p \in CacheProviders, m \in MediaIDs : CacheClear(p, m)
    \/ CacheClearAll

vars == <<cacheVars, driverVars, qualityVars, decodeVars, appVars, mirrorVars,
          writerVars, historyVars, autoplayVars>>

\* Values of the provider interface (unnamed/part_010) and of main.go.
NilProvider == "nil"
NilInfo == [nil |-> TRUE, EpisodeID |-> <<>>, MediaType |-> <<>>, ShowID |-> <<>>]
EpisodeInfo(episodeID, mediaType, showID) ==
    [nil |-> FALSE, EpisodeID |-> episodeID, MediaType |-> mediaType, ShowID |-> showID]
NilVideoData == [nil |-> TRUE, VideoURL |-> <<>>, Referer |-> ""]
VideoData(videoURL, referer) == [nil |-> FALSE, VideoURL |-> videoURL, Referer |-> referer]
NoMsg == [sent |-> FALSE, VideoData |-> NilVideoData, Err |-> NilErr]
PlayEpisodeResultMsg(videoData, err) == [sent |-> TRUE, VideoData |-> videoData, Err |-> err]
NilAnime == [nil |-> TRUE, ID |-> 0, Title |-> <<>>]
NoCall == [op |-> "none", err |-> NilErr]
NoRows == [mem |-> {}, disk |-> {}]

\* Variables a specification does not use keep their initial value.
IdleQuality == qLinks = <<>> /\ qPreferred = <<>> /\ qCall = [state |-> "idle", order |-> <<>>, url |-> <<>>]
IdleCache == InitCacheState /\ disk = NoDisk /\ homeOK /\ diskOK
IdleDriver == lastOp = NoOp /\ prevOp = NoOp /\ nOps = 0
IdleDecode == dEncoded = <<>> /\ dCall = [state |-> "idle", decoded |-> <<>>]
\* context.Background() (main.go lines 558 and 564): never cancelled.
Background == [done |-> FALSE, contributed |-> FALSE]
NoFile == [exists |-> FALSE, data |-> <<>>]
NoHistoryOp == [op |-> "none", incognito |-> FALSE, mediaID |-> 0, err |-> NilErr,
                entries |-> <<>>, before |-> <<>>]
\* The App as main builds it (main.go lines 152-170): at the main menu, nothing
\* selected, autoplay off.
StateMainMenu == "StateMainMenu"
StateAnimeList == "StateAnimeList"
NoAnime == [nil |-> TRUE, ID |-> 0, Episodes |-> 0]
NewApp ==
    [state |-> StateMainMenu, currentModel |-> "mainMenu", selectedAnime |-> NoAnime,
     selectedEp |-> 0, autoplayMode |-> FALSE, lastAnimeID |-> 0, err |-> NilErr]
NoCommands == [menu |-> 0, autoplay |-> 0]
NoMessages == [PlayEpisodeResultMsg |-> 0, PlayEpisodeResultErr |-> 0, PlayVideoMsg |-> 0]
NoUpdate == [msg |-> "none", menu |-> FALSE, played |-> 0, issued |-> 0]
IdleAutoplay ==
    /\ app = NewApp
    /\ cmds = NoCommands
    /\ msgs = NoMessages
    /\ started = {}
    /\ lastUpdate = NoUpdate
IdleHistory ==
    /\ historyFile = [incognito \in BOOLEAN |-> NoFile]
    /\ hLast = NoHistoryOp
    /\ nHist = 0
IdleWriters ==
    /\ wpc = <<>>
    /\ wbuf = <<>>
    /\ keyList = <<>>
    /\ fileData = [exists |-> FALSE, data |-> <<>>]
IdleMirrors ==
    /\ respStr = <<>>
    /\ pending = {}
    /\ results = <<>>
    /\ received = <<>>
    /\ allLinks = <<>>
    /\ bodyStr = <<>>
    /\ ctx = Background
IdleApp ==
    /\ build = "registry"
    /\ cfgProvider = ""
    /\ cfgQuality = <<>>
    /\ selectedAnime = NilAnime
    /\ pc = "idle"
    /\ prov = NilProvider
    /\ epInfo = NilInfo
    /\ playMsg = NoMsg
    /\ events = <<>>
    /\ cacheAtStart = NoRows
    /\ nResolutions = 0
    /\ callErr = NoCall
    /\ IdleMirrors

InitCache ==
    /\ InitCacheState
    /\ IdleDriver
    /\ IdleWriters
    /\ IdleHistory
    /\ IdleAutoplay
    /\ IdleQuality
    /\ IdleDecode
    /\ IdleApp

SpecCache == InitCache /\ [][NextCache]_vars

---------------------------------------------------------------------------
\* Properties of the cache

\* The value the row of the last operation's key held when it was called
\* (a Load leaves the value of an existing row as it is).
ValueBefore ==
    IF lastOp.rowBefore
    THEN RowValue(cacheFile, lastOp.provider, lastOp.mediaID)
    ELSE <<>>

\* A value that is not three pipe-delimited fields ending in a timestamp.
Malformed(value) ==
    \/ Cardinality({i \in 1..Len(value) : value[i] = Pipe}) # 2
    \/ /\ value[Len(value)] \notin {FormatRFC3339([sec |-> n, frac |-> 0])[1] :
                                       n \in 0..(MaxTime + 1)}
       /\ value[Len(value)] \notin {FormatLegacy(n)[1] : n \in 0..(MaxTime + 1)}

InvalidFormat == {"invalid cache entry format", "invalid timestamp format"}

\* C6: Save(p, m, i, t) followed by Load(p, m) returns an entry with
\* providerInternalId = i, title = t and lastUsed = the time of that Save.
C6_SaveLoadRoundTrip ==
    ( /\ lastOp.op = "Load"
      /\ prevOp.op = "Save"
      /\ prevOp.out.kind = "ok"
      /\ prevOp.provider = lastOp.provider
      /\ prevOp.mediaID = lastOp.mediaID )
    => /\ lastOp.out.kind = "entry"
       /\ lastOp.out.entry.ProviderID = prevOp.providerID
       /\ lastOp.out.entry.Title = prevOp.title
       /\ lastOp.out.entry.LastUsed = prevOp.at

C11_SaveOverwrites ==
    (lastOp.op = "Save" /\ lastOp.rowBefore)
    => /\ HasRow(cacheFile, lastOp.provider, lastOp.mediaID)
       /\ RowValue(cacheFile, lastOp.provider, lastOp.mediaID)
            = EntryValue(lastOp.providerID, lastOp.title, lastOp.at)
       /\ lastOp.out.kind = "ok"
            => (disk.exists /\ disk.sections = cacheFile.sections)

\* C11 witness: a Save has overwritten a row of a store that holds rows of
\* two providers, and the file holds the rows of both.
C11_Witness ==
    /\ lastOp.op = "Save"
    /\ lastOp.rowBefore
    /\ lastOp.out.kind = "ok"
    /\ lastOp.provider = "hdrezka"
    /\ RowValue(cacheFile, "hdrezka", lastOp.mediaID)
         = EntryValue(lastOp.providerID, lastOp.title, lastOp.at)
    /\ disk.exists
    /\ DOMAIN disk.sections = {"aniworld", "hdrezka"}
    /\ disk.sections["aniworld"]["1"] = <<"a", Pipe, "t">>

\* The keys of a set of sections, as <<provider, key>> pairs.
RowsOf(secs) ==
    {pk \in (DOMAIN secs) \X {KeyOf(m) : m \in MediaIDs} : pk[2] \in DOMAIN secs[pk[1]]}

\* C12: once ClearAll has returned without error, a Load of any provider
\* and media id returns absent, and a Save of one entry leaves no other row
\* in the in-memory store or in the file.
C12_ClearAllInvalidates ==
    (lastOp.op = "ClearAll" /\ lastOp.out.kind = "ok")
    => /\ \A p \in CacheProviders, m \in MediaIDs :
             LoadProviderMapping(cacheInitialized, cacheFile, disk, homeOK,
                                 p, m).out.kind = "absent"
       /\ \A p \in CacheProviders, m \in MediaIDs, i \in ProviderIDs, ti \in Titles :
             LET r == SaveProviderMapping(cacheInitialized, cacheFile, disk, homeOK,
                                          diskOK, p, m, i, ti, now)
             IN  r.out.kind = "ok"
                 => /\ RowsOf(r.file.sections) = {<<p, KeyOf(m)>>}
                    /\ RowsOf(r.disk.sections) = {<<p, KeyOf(m)>>}

---------------------------------------------------------------------------
\* AllAnimeProvider.selectQuality (config.go lines 691-715)

Digits == <<"0", "1", "2", "3", "4", "5", "6", "7", "8", "9">>
IsDigit(c) == \E d \in 1..10 : Digits[d] = c
DigitValue(c) == (CHOOSE d \in 1..10 : Digits[d] = c) - 1

RECURSIVE ParseDigits(_, _)
ParseDigits(s, acc) ==
    IF s = <<>> THEN acc
    ELSE ParseDigits(Tail(s), 10 * acc + DigitValue(Head(s)))

\* qi, _ := strconv.Atoi(label): the number a label spells (an optional
\* sign, then digits only), and 0 for any other label.
Atoi(s) ==
    LET signed == s # <<>> /\ Head(s) \in {"+", "-"}
        body == IF signed THEN Tail(s) ELSE s
    IN  IF body = <<>> \/ \E i \in 1..Len(body) : ~IsDigit(body[i])
        THEN 0
        ELSE IF signed /\ Head(s) = "-"
             THEN 0 - ParseDigits(body, 0)
             ELSE ParseDigits(body, 0)

\* The comparator with the order turned round (ascending).
QualityLessAscending(a, b) == Atoi(a) < Atoi(b)

\* The comparator handed to sort.Slice: descending by numeric value.
QualityLess(a, b) == Atoi(a) > Atoi(b)

\* One pass of the insertion sort sort.Slice runs on a short slice: x moves
\* left past every element it is less than.
RECURSIVE InsertLeft(_, _)
InsertLeft(sorted, x) ==
    IF sorted # <<>> /\ QualityLess(x, sorted[Len(sorted)])
    THEN Append(InsertLeft(SubSeq(sorted, 1, Len(sorted) - 1), x),
                sorted[Len(sorted)])
    ELSE Append(sorted, x)

RECURSIVE SortSlice(_)
SortSlice(qualities) ==
    IF qualities = <<>> THEN <<>>
    ELSE InsertLeft(SortSlice(SubSeq(qualities, 1, Len(qualities) - 1)),
                    qualities[Len(qualities)])

\* selectQuality, with `order` the order in which range yields the labels.
selectQuality(links, preferredQuality, order) ==
    IF preferredQuality \in DOMAIN links
    THEN links[preferredQuality]
    ELSE LET qualities == SortSlice(order)
         IN  IF Len(qualities) > 0 THEN links[qualities[1]] ELSE <<>>

\* The orders in which a Go map can be ranged over.
RangeOrders(links) ==
    {o \in [1..Cardinality(DOMAIN links) -> DOMAIN links] :
        \A i, j \in DOMAIN o : i # j => o[i] # o[j]}

L480 == <<"4", "8", "0">>
L720 == <<"7", "2", "0">>
L1080 == <<"1", "0", "8", "0">>
L0720 == <<"0", "7", "2", "0">>
LBest == <<"b", "e", "s", "t">>
QualityLabels == {L480, L720, L1080, L0720, LBest, <<>>}
\* Qualities a caller asks for: the labels, and two no map holds.
Preferred == QualityLabels \cup {<<"2", "1", "6", "0">>, <<"5", "0", "0">>}

\* The URL a mirror serves under a label: one per label.
UrlOf(label) == <<"u">> \o label

LinkMaps ==
    {[l \in S |-> UrlOf(l)] :
        S \in {T \in SUBSET QualityLabels : T # {} /\ Cardinality(T) <= MaxLabels}}

InitQuality ==
    /\ qLinks \in LinkMaps
    /\ qPreferred \in Preferred
    /\ qCall = [state |-> "idle", order |-> <<>>, url |-> <<>>]
    /\ IdleCache
    /\ IdleDriver
    /\ IdleWriters
    /\ IdleHistory
    /\ IdleAutoplay
    /\ IdleDecode
    /\ IdleApp

SelectQuality ==
    /\ qCall.state = "idle"
    /\ \E o \in RangeOrders(qLinks) :
           qCall' = [state |-> "returned", order |-> o,
                     url |-> selectQuality(qLinks, qPreferred, o)]
    /\ UNCHANGED <<qLinks, qPreferred, cacheVars, driverVars, decodeVars,
                   appVars, mirrorVars, writerVars, historyVars, autoplayVars>>

NextQuality == SelectQuality

SpecQuality == InitQuality /\ [][NextQuality]_vars

\* The greatest numeric value among the labels of the map.
MaxValue(links) ==
    CHOOSE v \in {Atoi(l) : l \in DOMAIN links} :
        \A l \in DOMAIN links : Atoi(l) <= v

\* C5: over a non-empty map, a requested quality that is a label of the
\* map gets the URL stored under exactly that label; any other request (an
\* absent label, the empty string) gets the URL of a label whose numeric
\* value is the greatest in the map, never that of a nearer smaller one.
C5_QualitySelection ==
    qCall.state = "returned"
    => IF qPreferred \in DOMAIN qLinks
       THEN qCall.url = UrlOf(qPreferred)
       ELSE \E l \in DOMAIN qLinks :
                /\ Atoi(l) = MaxValue(qLinks)
                /\ qCall.url = UrlOf(l)

\* C5 witness: 500 was asked of a map holding 480 and 1080, and the URL of
\* 1080 came back.
C5_Witness ==
    /\ qCall.state = "returned"
    /\ qPreferred = <<"5", "0", "0">>
    /\ {L480, L1080} \subseteq DOMAIN qLinks
    /\ qCall.url = UrlOf(L1080)

---------------------------------------------------------------------------
\* AllAnimeProvider.decodeProviderID (config.go lines 461-508).  Here a
\* string is a sequence of single characters.

\* The switch of lines 471-500: <<two-character token, character>>.
DecodeTable ==
    { <<<<"0", "1">>, "9">>,
      <<<<"0", "8">>, "0">>,
      <<<<"0", "5">>, "=">>,
      <<<<"0", "a">>, "2">>,
      <<<<"0", "b">>, "3">>,
      <<<<"0", "c">>, "4">>,
      <<<<"0", "7">>, "?">>,
      <<<<"0", "0">>, "8">>,
      <<<<"5", "c">>, "d">>,
      <<<<"0", "f">>, "7">>,
      <<<<"5", "e">>, "f">>,
      <<<<"1", "7">>, "/">>,
      <<<<"5", "4">>, "l">>,
      <<<<"0", "9">>, "1">>,
      <<<<"4", "8">>, "p">>,
      <<<<"4", "f">>, "w">>,
      <<<<"0", "e">>, "6">>,
      <<<<"5", "b">>, "c">>,
      <<<<"5", "d">>, "e">>,
      <<<<"0", "d">>, "5">>,
      <<<<"5", "3">>, "k">>,
      <<<<"1", "e">>, "&">>,
      <<<<"5", "a">>, "b">>,
      <<<<"5", "9">>, "a">>,
      <<<<"4", "a">>, "r">>,
      <<<<"4", "c">>, "t">>,
      <<<<"4", "e">>, "v">>,
      <<<<"5", "7">>, "o">>,
      <<<<"5", "1">>, "i">> }

TableTokens == {row[1] : row \in DecodeTable}

\* char for one token: the table's character, or the token itself.
DecodeToken(hex) ==
    IF hex \in TableTokens
    THEN <<(CHOOSE row \in DecodeTable : row[1] = hex)[2]>>
    ELSE hex

\* The loop of lines 465-504: two characters at a time; a last odd
\* character is dropped.
RECURSIVE DecodeLoop(_)
DecodeLoop(encoded) ==
    IF Len(encoded) < 2 THEN <<>>
    ELSE DecodeToken(SubSeq(encoded, 1, 2)) \o DecodeLoop(SubSeq(encoded, 3, Len(encoded)))

HasPrefix(s, prefix) ==
    Len(s) >= Len(prefix) /\ SubSeq(s, 1, Len(prefix)) = prefix

\* strings.ReplaceAll(s, old, new), old not empty.
RECURSIVE ReplaceAll(_, _, _)
ReplaceAll(s, old, new) ==
    IF s = <<>> THEN <<>>
    ELSE IF HasPrefix(s, old)
    THEN new \o ReplaceAll(SubSeq(s, Len(old) + 1, Len(s)), old, new)
    ELSE <<Head(s)>> \o ReplaceAll(Tail(s), old, new)

Clock == <<"/", "c", "l", "o", "c", "k">>
ClockJSON == Clock \o <<".", "j", "s", "o", "n">>

\* decodeProviderID with the .json appended to every clock, slash or not.
decodeProviderIDAnyClock(encoded) ==
    ReplaceAll(DecodeLoop(encoded), Tail(Clock), Tail(ClockJSON))

HasSuffix(s, suffix) ==
    Len(s) >= Len(suffix) /\ SubSeq(s, Len(s) - Len(suffix) + 1, Len(s)) = suffix

\* decodeProviderID with the .json appended only to a /clock at the end.
decodeProviderIDSuffix(encoded) ==
    LET decoded == DecodeLoop(encoded)
    IN  IF HasSuffix(decoded, Clock) THEN decoded \o <<".", "j", "s", "o", "n">>
        ELSE decoded

decodeProviderID(encoded) ==
    ReplaceAll(DecodeLoop(encoded), Clock, ClockJSON)

\* Inputs: token sequences.  Short ones over the whole table and two tokens
\* the table does not hold; longer ones over the tokens that spell /clock.
UnknownTokens == {<<"z", "z">>, <<"/", "c">>}
ClockTokens == {<<"1", "7">>, <<"5", "b">>, <<"5", "4">>, <<"5", "7">>, <<"5", "3">>}

RECURSIVE Flatten(_)
Flatten(tokens) ==
    IF tokens = <<>> THEN <<>> ELSE Head(tokens) \o Flatten(Tail(tokens))

TokenSeqs(alphabet, maxLen) ==
    UNION {[1..n -> alphabet] : n \in 0..maxLen}

\* The encoding of /clock, and the tokens of "?" and "=" that follow it in
\* an address such as /apivtwo/clock?id=...
EncodedClock == <<"1", "7", "5", "b", "5", "4", "5", "7", "5", "b", "5", "3">>
QueryTokens == {<<"0", "7">>, <<"0", "5">>}

EncodedInputs ==
    {Flatten(ts) \o trail :
        ts \in TokenSeqs(TableTokens \cup UnknownTokens, MaxShort),
        trail \in {<<>>, <<"1">>}}
    \cup {Flatten(ts) : ts \in TokenSeqs(ClockTokens, MaxTokens)}
    \cup {EncodedClock \o Flatten(ts) \o again :
            ts \in TokenSeqs(ClockTokens \cup QueryTokens, MaxTail),
            again \in {<<>>, EncodedClock}}

InitDecode ==
    /\ dEncoded \in EncodedInputs
    /\ dCall = [state |-> "idle", decoded |-> <<>>]
    /\ IdleCache
    /\ IdleDriver
    /\ IdleWriters
    /\ IdleHistory
    /\ IdleAutoplay
    /\ IdleQuality
    /\ IdleApp

DecodeProviderID ==
    /\ dCall.state = "idle"
    /\ dCall' = [state |-> "returned", decoded |-> decodeProviderID(dEncoded)]
    /\ UNCHANGED <<dEncoded, cacheVars, driverVars, qualityVars, appVars, mirrorVars,
                   writerVars, historyVars, autoplayVars>>

NextDecode == DecodeProviderID

SpecDecode == InitDecode /\ [][NextDecode]_vars

\* The tokens of an even-length input.
TokensOf(encoded) ==
    [i \in 1..(Len(encoded) \div 2) |-> <<encoded[2 * i - 1], encoded[2 * i]>>]

\* encode: the token the table decodes to a character.
OutputSet == {row[2] : row \in DecodeTable}
EncodeChar(c) == CHOOSE row \in DecodeTable : row[2] = c
EncodeTable == {EncodeChar(c) : c \in OutputSet}

\* The text an even-length input stands for: per token, the character whose
\* encoding it is, or the token itself when it encodes none.
Image(tok) ==
    IF \E row \in EncodeTable : row[1] = tok
    THEN <<(CHOOSE row \in EncodeTable : row[1] = tok)[2]>>
    ELSE tok

Plain(encoded) == Flatten([i \in DOMAIN TokensOf(encoded) |-> Image(TokensOf(encoded)[i])])

\* How often /clock occurs in a text.
ClockCount(s) == Cardinality({i \in 1..Len(s) : HasPrefix(SubSeq(s, i, Len(s)), Clock)})

EvenInput == Len(dEncoded) % 2 = 0
AllInTable == \A i \in DOMAIN TokensOf(dEncoded) : TokensOf(dEncoded)[i] \in TableTokens

\* C8 as stated: on an even-length input made of table tokens, that is on
\* encode(x), the decoder returns x.
C8_RoundTripAsStated ==
    (dCall.state = "returned" /\ EvenInput /\ AllInTable)
    => dCall.decoded = Plain(dEncoded)

\* C8 (amended): on every even-length token sequence whose text holds no
\* /clock, the decoder returns that text: decode(encode(x)) = x for x made
\* of the table's output characters, and every token that is not in the
\* table appears unchanged.  A text holding /clock comes back longer, with
\* .json added once per /clock.
C8_RoundTrip ==
    (dCall.state = "returned" /\ EvenInput)
    => /\ ClockCount(Plain(dEncoded)) = 0 => dCall.decoded = Plain(dEncoded)
       /\ Len(dCall.decoded) = Len(Plain(dEncoded)) + 5 * ClockCount(Plain(dEncoded))

\* C8 witness: the encoding of "c" followed by a token the table does not
\* hold has been decoded.
C8_Witness ==
    /\ dCall.state = "returned"
    /\ dEncoded = <<"5", "b", "z", "z">>
    /\ dCall.decoded = <<"c", "z", "z">>

\* The decoded text before the .json step (lines 465-504).
Decoded == DecodeLoop(dEncoded)

\* The places where /clock starts in a text.
ClockAt(s) == {i \in 1..Len(s) : HasPrefix(SubSeq(s, i, Len(s)), Clock)}

\* A text with the .json taken out after each /clock.
RECURSIVE StripJSON(_)
StripJSON(s) ==
    IF s = <<>> THEN <<>>
    ELSE IF HasPrefix(s, ClockJSON)
    THEN Clock \o StripJSON(SubSeq(s, Len(ClockJSON) + 1, Len(s)))
    ELSE <<Head(s)>> \o StripJSON(Tail(s))

\* C23 as stated: .json is appended only to a /clock the decoded path ends
\* with, once; a /clock anywhere else is left unchanged.
C23_ClockSuffixOnly ==
    dCall.state = "returned"
    => dCall.decoded = IF HasSuffix(Decoded, Clock)
                       THEN Decoded \o <<".", "j", "s", "o", "n">>
                       ELSE Decoded

\* C23 (amended): .json is inserted after every /clock of the decoded path,
\* wherever it stands: each /clock of the output is followed by .json, the
\* output is longer by five characters per /clock, and taking the .json
\* out again gives the decoded path; a path without /clock is unchanged.
C23_ClockEverywhere ==
    dCall.state = "returned"
    => /\ \A i \in ClockAt(dCall.decoded) :
             HasPrefix(SubSeq(dCall.decoded, i, Len(dCall.decoded)), ClockJSON)
       /\ Len(dCall.decoded) = Len(Decoded) + 5 * Cardinality(ClockAt(Decoded))
       /\ StripJSON(dCall.decoded) = Decoded
       /\ ClockAt(Decoded) = {} => dCall.decoded = Decoded

\* C23 witness: /clock?=/clock has been decoded, with .json after the
\* /clock in the middle and after the one at the end.
C23_Witness ==
    /\ dCall.state = "returned"
    /\ Decoded = Clock \o <<"?", "=">> \o Clock
    /\ dCall.decoded = ClockJSON \o <<"?", "=">> \o ClockJSON

---------------------------------------------------------------------------
\* The provider registry (unnamed/part_010) and the providers' Name methods.

Lookup(provider, err) == [prov |-> provider, err |-> err]

\* GetProvider of unnamed/part_010 lines 36-53.
GetProviderPlain(name) ==
    CASE name = "allanime" -> Lookup("AllAnimeProvider", NilErr)
      [] name = "aniwatch" -> Lookup("AniWatchProvider", NilErr)
      [] name = "yugen" -> Lookup("YugenProvider", NilErr)
      [] name = "hdrezka" -> Lookup("HDRezkaProvider", NilErr)
      [] name = "aniworld" -> Lookup("AniWorldProvider", NilErr)
      [] name = "crunchyroll" -> Lookup("CrunchyrollProvider", NilErr)
      [] OTHER -> Lookup(NilProvider, "unknown provider: " \o name)

\* GetProvider of unnamed/part_010 lines 93-120 (it logs; no crunchyroll).
GetProviderLogged(name) ==
    CASE name = "allanime" -> Lookup("AllAnimeProvider", NilErr)
      [] name = "aniwatch" -> Lookup("AniWatchProvider", NilErr)
      [] name = "yugen" -> Lookup("YugenProvider", NilErr)
      [] name = "hdrezka" -> Lookup("HDRezkaProvider", NilErr)
      [] name = "aniworld" -> Lookup("AniWorldProvider", NilErr)
      [] OTHER -> Lookup(NilProvider, "unknown provider: " \o name)

GetProvider(name) ==
    IF build = "registry" THEN GetProviderPlain(name) ELSE GetProviderLogged(name)

\* Name with every provider answering "allanime".
NameAllAnime(p) == "allanime"

\* The Name method of each provider type.
Name(p) ==
    CASE p = "AllAnimeProvider" -> "allanime"
      [] p = "AniWatchProvider" -> "aniwatch"
      [] p = "YugenProvider" -> "yugen"
      [] p = "HDRezkaProvider" -> "hdrezka"
      [] p = "AniWorldProvider" -> "aniworld"
      [] p = "CrunchyrollProvider" -> "crunchyroll"

---------------------------------------------------------------------------
\* String helpers of the providers.  A URL is a sequence of tokens; " or "
\* and " " are tokens of their own.

\* An Errorf that drops the error it is given.
WrapBare(prefix, err) == prefix

\* fmt.Errorf(prefix + ": %w", err)
Wrap(prefix, err) == prefix \o ": " \o err

RECURSIVE TrimLeft(_)
TrimLeft(s) == IF s # <<>> /\ Head(s) = " " THEN TrimLeft(Tail(s)) ELSE s

RECURSIVE TrimRight(_)
TrimRight(s) ==
    IF s # <<>> /\ s[Len(s)] = " " THEN TrimRight(SubSeq(s, 1, Len(s) - 1)) ELSE s

\* strings.TrimSpace
TrimSpace(s) == TrimRight(TrimLeft(s))

\* strings.Split(s, sep)[0]
RECURSIVE SplitFirst(_, _)
SplitFirst(s, sep) ==
    IF s = <<>> \/ Head(s) = sep THEN <<>>
    ELSE <<Head(s)>> \o SplitFirst(Tail(s), sep)

\* strings.Contains
Contains(s, sub) == \E i \in 1..(Len(s) + 1) : HasPrefix(SubSeq(s, i, Len(s)), sub)

\* strings.Replace(s, old, new, 1), old one token.
RECURSIVE ReplaceFirst(_, _, _)
ReplaceFirst(s, old, new) ==
    IF s = <<>> THEN <<>>
    ELSE IF Head(s) = old THEN new \o Tail(s)
    ELSE <<Head(s)>> \o ReplaceFirst(Tail(s), old, new)

\* strings.Join(parts, "|")
RECURSIVE JoinPipe(_)
JoinPipe(parts) ==
    IF parts = <<>> THEN <<>>
    ELSE IF Len(parts) = 1 THEN parts[1]
    ELSE parts[1] \o <<Pipe>> \o JoinPipe(Tail(parts))

---------------------------------------------------------------------------
\* What a provider method hands back, with the requests it made (log) and
\* the cache as it leaves it.

PanicErr == "panic: nil pointer dereference"

CacheState(inited, file, dsk, t) ==
    [inited |-> inited, file |-> file, disk |-> dsk, now |-> t]

InfoResult(info, err, log, cache) ==
    [info |-> info, err |-> err, log |-> log, cache |-> cache]

VideoResult(data, err, log) == [data |-> data, err |-> err, log |-> log]

\* An HTTP exchange that yields a list (search edges, regex matches): it
\* fails, or answers with the list.
Failed == [ok |-> FALSE, list |-> <<>>]
Answer(list) == [ok |-> TRUE, list |-> list]

\* fmt.Sprintf("%d", episodeNum)
EpisodeString(episodeNum) == <<ToString(episodeNum)>>

\* A cache call in the log of a provider method, followed by a mark when
\* the call returned an error (whatever the method then does with it).
CacheStep(step, out) ==
    IF out.kind = "error" THEN <<step, step \o "Err">> ELSE <<step>>

\* AllAnimeProvider.GetEpisodeInfo (config.go lines 162-249): the search
\* request, then the first edge.  The cache is not consulted.
AllAnimeGetEpisodeInfo(cache, episodeNum, search) ==
    IF ~search.ok
    THEN InfoResult(NilInfo, "failed to execute request", <<"search">>, cache)
    ELSE IF Len(search.list) = 0
    THEN InfoResult(NilInfo, "no results found", <<"search">>, cache)
    ELSE InfoResult(EpisodeInfo(EpisodeString(episodeNum), <<>>, search.list[1]),
                    NilErr, <<"search">>, cache)

\* AniWorldProvider.GetEpisodeInfo (config.go lines 748-849).
AniWorldGetEpisodeInfo(cache, home, fsOK, mediaID, title, backup, search, t) ==
    LET load == LoadProviderMapping(cache.inited, cache.file, cache.disk, home,
                                    "aniworld", mediaID)
        loaded == CacheState(load.inited, load.file, cache.disk, cache.now)
        save == SaveProviderMapping(load.inited, load.file, cache.disk, home, fsOK,
                                    "aniworld", mediaID, search.list[1], title, t)
        saved == CacheState(save.inited, save.file, save.disk, t)
    IN  IF ~backup.ok
        THEN InfoResult(NilInfo, "failed to execute request", <<"backup">>, cache)
        ELSE IF Len(backup.list) = 0
        THEN InfoResult(NilInfo, "title not found in backup", <<"backup">>, cache)
        ELSE IF load.out.kind = "panic"
        THEN InfoResult(NilInfo, PanicErr, <<"backup">> \o CacheStep("cacheLoad", load.out), loaded)
        ELSE IF load.out.kind = "entry"
        THEN InfoResult(EpisodeInfo(load.out.entry.ProviderID, <<>>, <<>>), NilErr,
                        <<"backup">> \o CacheStep("cacheLoad", load.out), loaded)
        ELSE IF ~search.ok
        THEN InfoResult(NilInfo, "failed to execute request",
                        <<"backup">> \o CacheStep("cacheLoad", load.out) \o <<"search">>, loaded)
        ELSE IF Len(search.list) = 0
        THEN InfoResult(NilInfo, "no results found on aniworld",
                        <<"backup">> \o CacheStep("cacheLoad", load.out) \o <<"search">>, loaded)
        ELSE IF save.out.kind = "panic"
        THEN InfoResult(NilInfo, PanicErr,
                        <<"backup">> \o CacheStep("cacheLoad", load.out) \o <<"search">>
                        \o CacheStep("cacheWrite", save.out), saved)
        ELSE InfoResult(EpisodeInfo(search.list[1], <<>>, <<>>), NilErr,
                        <<"backup">> \o CacheStep("cacheLoad", load.out) \o <<"search">>
                        \o CacheStep("cacheWrite", save.out), saved)

\* HDRezkaProvider.GetEpisodeInfo (hdrezka.go lines 34-119).  A search match
\* is [mediaType, episodeID].
HDRezkaGetEpisodeInfo(cache, home, fsOK, mediaID, title, backup, search, t) ==
    LET load == LoadProviderMapping(cache.inited, cache.file, cache.disk, home,
                                    "hdrezka", mediaID)
        loaded == CacheState(load.inited, load.file, cache.disk, cache.now)
        parts == SplitPipe(load.out.entry.ProviderID)
        mediaType == search.list[1].mediaType
        episodeID == search.list[1].episodeID
        cacheValue == mediaType \o <<Pipe>> \o episodeID
        save == SaveProviderMapping(load.inited, load.file, cache.disk, home, fsOK,
                                    "hdrezka", mediaID, cacheValue, title, t)
        saved == CacheState(save.inited, save.file, save.disk, t)
    IN  IF ~backup.ok
        THEN InfoResult(NilInfo, "failed to execute request", <<"backup">>, cache)
        ELSE IF Len(backup.list) = 0
        THEN InfoResult(NilInfo, "title not found in backup", <<"backup">>, cache)
        ELSE IF load.out.kind = "panic"
        THEN InfoResult(NilInfo, PanicErr, <<"backup">> \o CacheStep("cacheLoad", load.out), loaded)
        ELSE IF load.out.kind = "entry" /\ Len(parts) = 2
        THEN InfoResult(EpisodeInfo(parts[2], parts[1], <<>>), NilErr,
                        <<"backup">> \o CacheStep("cacheLoad", load.out), loaded)
        ELSE IF ~search.ok
        THEN InfoResult(NilInfo, "failed to execute request",
                        <<"backup">> \o CacheStep("cacheLoad", load.out) \o <<"search">>, loaded)
        ELSE IF Len(search.list) = 0
        THEN InfoResult(NilInfo, "no results found on hdrezka",
                        <<"backup">> \o CacheStep("cacheLoad", load.out) \o <<"search">>, loaded)
        ELSE IF save.out.kind = "panic"
        THEN InfoResult(NilInfo, PanicErr,
                        <<"backup">> \o CacheStep("cacheLoad", load.out) \o <<"search">>
                        \o CacheStep("cacheWrite", save.out), saved)
        ELSE InfoResult(EpisodeInfo(episodeID, mediaType, <<>>), NilErr,
                        <<"backup">> \o CacheStep("cacheLoad", load.out) \o <<"search">>
                        \o CacheStep("cacheWrite", save.out), saved)

\* AniWatchProvider.GetEpisodeInfo (aniwatch.go lines 31-92): the id from
\* mal-backup, then the episode list.
AniWatchGetEpisodeInfo(cache, backup, episodes) ==
    IF ~backup.ok
    THEN InfoResult(NilInfo, "failed to execute request", <<"backup">>, cache)
    ELSE IF Len(backup.list) = 0
    THEN InfoResult(NilInfo, "aniwatch ID not found", <<"backup">>, cache)
    ELSE IF ~episodes.ok
    THEN InfoResult(NilInfo, "failed to execute request", <<"backup", "episodes">>, cache)
    ELSE IF Len(episodes.list) = 0
    THEN InfoResult(NilInfo, "episode not found", <<"backup", "episodes">>, cache)
    ELSE InfoResult(EpisodeInfo(episodes.list[1], <<>>, <<>>), NilErr,
                    <<"backup", "episodes">>, cache)

\* YugenProvider.GetEpisodeInfo (unnamed/part_009 lines 31-100).
YugenGetEpisodeInfo(cache, backup, episodes) ==
    IF ~backup.ok
    THEN InfoResult(NilInfo, "failed to execute request", <<"backup">>, cache)
    ELSE IF Len(backup.list) = 0
    THEN InfoResult(NilInfo, "yugen URL not found", <<"backup">>, cache)
    ELSE IF ~episodes.ok
    THEN InfoResult(NilInfo, "failed to execute request", <<"backup", "episodes">>, cache)
    ELSE IF Len(episodes.list) = 0
    THEN InfoResult(NilInfo, "yugen episode ID not found", <<"backup", "episodes">>, cache)
    ELSE InfoResult(EpisodeInfo(episodes.list[1], <<>>, <<>>), NilErr,
                    <<"backup", "episodes">>, cache)

\* CrunchyrollProvider.GetEpisodeInfo (cache.go lines 236-364): mal-backup,
\* the access token and the season, then the episode list.
CrunchyrollGetEpisodeInfo(cache, backup, episodes) ==
    IF ~backup.ok
    THEN InfoResult(NilInfo, "failed to execute request", <<"backup">>, cache)
    ELSE IF Len(backup.list) = 0
    THEN InfoResult(NilInfo, "crunchyroll URL not found", <<"backup">>, cache)
    ELSE IF ~episodes.ok
    THEN InfoResult(NilInfo, "failed to execute request", <<"backup", "episodes">>, cache)
    ELSE IF Len(episodes.list) = 0
    THEN InfoResult(NilInfo, "episode ID not found", <<"backup", "episodes">>, cache)
    ELSE InfoResult(EpisodeInfo(episodes.list[1], <<>>, <<>>), NilErr,
                    <<"backup", "episodes">>, cache)

---------------------------------------------------------------------------
\* GetVideoLink of the providers that resolve in one call.

LWorst == <<"w", "o", "r", "s", "t">>

\* HDRezkaProvider.GetVideoLink (hdrezka.go lines 122-367).  stream is the
\* exchange up to the decoded data; its list is videoMatches, each match
\* [quality, url] with url not empty.
HDRezkaGetVideoLink(info, quality, stream) ==
    LET videoMatches == stream.list
        n == Len(videoMatches)
        hits == {i \in 1..n : Contains(videoMatches[i].quality, quality)}
        matching == IF hits = {} THEN <<>>
                    ELSE videoMatches[CHOOSE i \in hits : \A j \in hits : i <= j].url
        videoURL == IF quality = <<>> \/ quality = LBest
                    THEN videoMatches[n].url
                    ELSE IF quality = LWorst
                    THEN videoMatches[1].url
                    ELSE IF matching = <<>>
                    THEN videoMatches[n].url
                    ELSE matching
    IN  IF ~stream.ok
        THEN VideoResult(NilVideoData, "failed to get video URL from hdrezka", <<"stream">>)
        ELSE IF n = 0
        THEN VideoResult(NilVideoData, "no video links found in decoded data", <<"stream">>)
        ELSE VideoResult(VideoData(TrimSpace(SplitFirst(videoURL, " or ")),
                                   "https://hdrezka.website/"),
                         NilErr, <<"stream">>)

\* YugenProvider.GetVideoLink (unnamed/part_009 lines 103-150).  The list of
\* embed is videoResp.HLS.
YugenGetVideoLink(info, quality, embed) ==
    IF ~embed.ok
    THEN VideoResult(NilVideoData, "failed to execute request", <<"embed">>)
    ELSE IF Len(embed.list) = 0
    THEN VideoResult(NilVideoData, "no HLS links found", <<"embed">>)
    ELSE LET videoURL == embed.list[1]
         IN  VideoResult(VideoData(IF quality # <<>>
                                   THEN ReplaceFirst(videoURL, ".m3u8",
                                                     <<".">> \o quality \o <<".m3u8">>)
                                   ELSE videoURL,
                                   ""),
                         NilErr, <<"embed">>)

\* AniWatchProvider.GetVideoLink (aniwatch.go lines 95-219).  The list of
\* sources is the matches of "file":"(.*\.m3u8)".
AniWatchGetVideoLink(info, quality, sources) ==
    IF ~sources.ok
    THEN VideoResult(NilVideoData, "failed to execute request", <<"sources">>)
    ELSE IF Len(sources.list) = 0
    THEN VideoResult(NilVideoData, "video link not found", <<"sources">>)
    ELSE LET videoURL == sources.list[1]
         IN  VideoResult(VideoData(IF quality # <<>>
                                   THEN ReplaceFirst(videoURL, "/playlist.m3u8",
                                                     <<"/">> \o quality \o <<"/index.m3u8">>)
                                   ELSE videoURL,
                                   ""),
                         NilErr, <<"sources">>)

\* AniWorldProvider.GetVideoLink (config.go lines 852-944).  The list of
\* page is the matches of "(.*\.m3u8[^"]*)".
AniWorldGetVideoLink(info, quality, page) ==
    IF ~page.ok
    THEN VideoResult(NilVideoData, "failed to execute request", <<"page">>)
    ELSE IF Len(page.list) = 0
    THEN VideoResult(NilVideoData, "video link not found", <<"page">>)
    ELSE VideoResult(VideoData(page.list[1], ""), NilErr, <<"page">>)

\* CrunchyrollProvider.GetVideoLink (cache.go lines 367-371)
CrunchyrollGetVideoLink(info, quality) ==
    VideoResult(NilVideoData,
                "crunchyroll provider requires DRM handling - not yet fully implemented",
                <<>>)

---------------------------------------------------------------------------
\* AllAnimeProvider.GetVideoLink and the mirrors (config.go lines 252-637)

\* for providerNum := 1; providerNum <= 5
NumMirrors == 5

\* providerResult
providerResult(links, err) == [links |-> links, err |-> err]

\* The source name generateLinksForProvider looks for.
ProviderLabel(providerNum) ==
    CASE providerNum = 1 -> "Luf-mp4"
      [] providerNum = 2 -> "Default"
      [] providerNum = 3 -> "Sak"
      [] providerNum = 4 -> "Kir"
      [] OTHER -> "S-mp4"

\* strings.Contains(fullURL, "vipanicdn") || strings.Contains(fullURL,
\* "anifastcdn") (line 559); the base URL holds neither.
Vipanicdn == <<"v", "i", "p", "a", "n", "i", "c", "d", "n">>
Anifastcdn == <<"a", "n", "i", "f", "a", "s", "t", "c", "d", "n">>
IsCDN(providerID) == Contains(providerID, Vipanicdn) \/ Contains(providerID, Anifastcdn)

\* getLinksFromProviderID (lines 511-637): the request fails, or the links
\* read from the answer (possibly none) come back.  For a CDN address the
\* playlist named by the answer's link is fetched with a request built by
\* NewRequestWithContext whose error is dropped (line 580): when the link
\* is no URL the request is nil and setting its header (line 581) panics.
getLinksFromProviderID(providerID, net) ==
    IF ~net.ok
    THEN providerResult(<<>>, "failed to execute request")
    ELSE IF IsCDN(providerID) /\ ~net.linkIsURL
    THEN providerResult(<<>>, PanicErr)
    ELSE providerResult(net.list, NilErr)

\* generateLinksForProvider (lines 397-458)
generateLinksForProvider(resp, providerNum, net) ==
    IF ProviderLabel(providerNum) \notin DOMAIN resp
    THEN providerResult(<<>>, NilErr)
    ELSE LET providerID == decodeProviderID(TrimSpace(resp[ProviderLabel(providerNum)]))
         IN  IF providerID = <<>>
             THEN providerResult(<<>>, "provider ID not found")
             ELSE getLinksFromProviderID(providerID, net)

\* The merge with each result replacing what was collected before.
MergeLinksOverwrite(all, result) == result.links

\* The merge with a label keeping the link it got first.
MergeLinksFirstWins(all, result) ==
    IF result.err = NilErr /\ Cardinality(DOMAIN result.links) > 0
    THEN all @@ result.links
    ELSE all

\* The body of the collecting loop (lines 379-386)
MergeLinks(all, result) ==
    IF result.err = NilErr /\ Cardinality(DOMAIN result.links) > 0
    THEN result.links @@ all
    ELSE all

\* An end of extractLinks without the test of line 388.
AllAnimeReturnAny(links, quality, order) ==
    VideoResult(VideoData(selectQuality(links, quality, order), "https://allanime.to"),
                NilErr, <<"select">>)

\* The end of extractLinks (lines 388-393) and of GetVideoLink (lines
\* 314-330).
AllAnimeReturn(links, quality, order) ==
    IF Cardinality(DOMAIN links) = 0
    THEN VideoResult(NilVideoData,
                     Wrap("failed to extract links",
                          "no video links found: all providers failed"),
                     <<>>)
    ELSE VideoResult(VideoData(selectQuality(links, quality, order), "https://allanime.to"),
                     NilErr, <<"select">>)

---------------------------------------------------------------------------
\* The resolution: App.fetchAndPlayEpisode (main.go lines 544-570) run as a
\* command, one at a time, against what the upstream sites answer.

Builds == {"registry", "registryLogged"}
ConfiguredNames ==
    {"allanime", "aniwatch", "yugen", "hdrezka", "aniworld", "crunchyroll", "gogoanime"}
ConfiguredQualities == {<<>>, L720}
Animes == {NilAnime} \cup {[nil |-> FALSE, ID |-> m, Title |-> <<"t">>] : m \in MediaIDs}
Episodes == {5}

\* Cache files a run starts from: none, or the one an earlier run of
\* aniworld and of hdrezka on media 1 has written.
StartDisks ==
    { NoDisk,
      DiskFile(("aniworld" :> ("1" :> EntryValue(<<"a">>, <<"t">>, ZeroTime)))
               @@ ("hdrezka" :> ("1" :> EntryValue(<<"series", Pipe, "e">>, <<"t">>, ZeroTime)))) }

\* What the sites answer.
BackupAnswers == {Failed, Answer(<<>>), Answer(<<<<"t">>>>)}
AllAnimeSearches == {Failed, Answer(<<>>), Answer(<<<<"s">>>>)}
AniWorldSearches == {Failed, Answer(<<>>), Answer(<<<<"b">>>>)}
HDRezkaSearches ==
    {Failed, Answer(<<>>), Answer(<<[mediaType |-> <<"films">>, episodeID |-> <<"f">>]>>)}
EpisodeLists == {Failed, Answer(<<>>), Answer(<<<<"7">>>>)}
HDRezkaStreams ==
    { Failed, Answer(<<>>),
      Answer(<<[quality |-> <<"4", "8", "0", "p">>, url |-> <<"h4">>],
               [quality |-> <<"7", "2", "0", "p">>, url |-> <<"h7", " or ", "h7b">>]>>),
      Answer(<<[quality |-> <<"7", "2", "0", "p">>, url |-> <<" ">>]>>) }
YugenEmbeds == {Failed, Answer(<<>>), Answer(<<<<>>>>), Answer(<<<<"h", ".m3u8">>>>)}
AniWatchSources ==
    {Failed, Answer(<<>>), Answer(<<<<"h", "/playlist.m3u8">>>>), Answer(<<<<"h.m3u8">>>>)}
AniWorldPages == {Failed, Answer(<<>>), Answer(<<<<"h.m3u8">>>>)}

\* The sourceUrls of an episode: the request fails, the field is null, or
\* the names found with their encoded ids (none when nothing matches).
EncodedID == <<"5", "b">>
\* An id that decodes to "vipanicdn/".
EncodedCDN == <<"4", "e", "5", "1", "4", "8", "5", "9", "n", "i", "5", "b", "5", "c",
                "n", "/">>
SourceNameMaps ==
    { <<>>,
      ("Default" :> EncodedID) @@ ("Kir" :> EncodedCDN),
      [name \in {"Luf-mp4", "Default", "Sak", "Kir", "S-mp4"} |-> EncodedID],
      ("Luf-mp4" :> <<"1">>) @@ ("S-mp4" :> EncodedID),
      [name \in {"Yt-mp4"} |-> EncodedID] }
SourceAnswers ==
    { [ok |-> FALSE, null |-> FALSE, names |-> <<>>],
      [ok |-> TRUE, null |-> TRUE, names |-> <<>>] }
    \cup {[ok |-> TRUE, null |-> FALSE, names |-> m] : m \in SourceNameMaps}

\* What a mirror answers: the request fails, or a body with the links its
\* parse yields and a first link that is a URL or is not.
Body(ok, list, linkIsURL) == [ok |-> ok, list |-> list, linkIsURL |-> linkIsURL]
MirrorAnswers ==
    { Body(FALSE, <<>>, TRUE),
      Body(TRUE, <<>>, TRUE),
      Body(TRUE, <<>>, FALSE),
      Body(TRUE, L720 :> <<"u", "1">>, TRUE),
      Body(TRUE, (L720 :> <<"u", "2">>) @@ (L1080 :> <<"u", "3">>), TRUE) }

\* The rows of the cache that hold a value, as <<provider, key, value>>.
NonEmptyRows(secs) ==
    UNION {{<<p, k, secs[p][k]>> : k \in {q \in DOMAIN secs[p] : secs[p][q] # <<>>}} :
              p \in DOMAIN secs}

\* The rows the program would find, and the rows on disk.
CacheRows ==
    [mem |-> NonEmptyRows(IF cacheFile.nil THEN disk.sections ELSE cacheFile.sections),
     disk |-> NonEmptyRows(disk.sections)]

Cache == CacheState(cacheInitialized, cacheFile, disk, now)

Init ==
    /\ build \in Builds
    /\ cfgProvider \in ConfiguredNames
    /\ cfgQuality \in ConfiguredQualities
    /\ selectedAnime = NilAnime
    /\ pc = "idle"
    /\ prov = NilProvider
    /\ epInfo = NilInfo
    /\ playMsg = NoMsg
    /\ events = <<>>
    /\ cacheAtStart = NoRows
    /\ nResolutions = 0
    /\ callErr = NoCall
    /\ IdleMirrors
    /\ cacheInitialized = FALSE
    /\ cacheFile = NilFile
    /\ disk \in StartDisks
    /\ homeOK = TRUE
    /\ diskOK = TRUE
    /\ now = ZeroTime
    /\ IdleDriver
    /\ IdleWriters
    /\ IdleHistory
    /\ IdleAutoplay
    /\ IdleQuality
    /\ IdleDecode

\* fetchAndPlayEpisode up to the provider lookup (lines 546-556).
FetchAndPlayEpisode(anime) ==
    /\ pc \in {"idle", "done"}
    /\ nResolutions < MaxResolutions
    /\ nResolutions' = nResolutions + 1
    /\ selectedAnime' = anime
    /\ cacheAtStart' = CacheRows
    /\ epInfo' = NilInfo
    /\ events' = <<>>
    /\ respStr' = <<>>
    /\ pending' = {}
    /\ results' = <<>>
    /\ received' = <<>>
    /\ allLinks' = <<>>
    /\ UNCHANGED <<bodyStr, ctx>>
    /\ IF anime.nil
       THEN /\ prov' = NilProvider
            /\ callErr' = NoCall
            /\ playMsg' = PlayEpisodeResultMsg(NilVideoData, "no anime selected")
            /\ pc' = "done"
       ELSE LET r == GetProvider(cfgProvider)
            IN  /\ prov' = r.prov
                /\ callErr' = [op |-> "GetProvider", err |-> r.err]
                /\ IF r.err # NilErr
                   THEN /\ playMsg' = PlayEpisodeResultMsg(NilVideoData, r.err)
                        /\ pc' = "done"
                   ELSE /\ playMsg' = NoMsg
                        /\ pc' = "getEpisodeInfo"
    /\ UNCHANGED <<build, cfgProvider, cfgQuality, cacheVars, driverVars,
                   qualityVars, decodeVars, writerVars, historyVars, autoplayVars>>

\* GetEpisodeInfo has returned r (lines 558-562).
ReturnEpisodeInfo(r) ==
    /\ events' = events \o r.log
    /\ cacheInitialized' = r.cache.inited
    /\ cacheFile' = r.cache.file
    /\ disk' = r.cache.disk
    /\ now' = r.cache.now
    /\ callErr' = [op |-> "GetEpisodeInfo", err |-> r.err]
    /\ IF r.err = PanicErr
       THEN /\ pc' = "panicked"
            /\ UNCHANGED <<epInfo, playMsg>>
       ELSE IF r.err # NilErr
       THEN /\ pc' = "done"
            /\ epInfo' = NilInfo
            /\ playMsg' = PlayEpisodeResultMsg(NilVideoData,
                                               Wrap("failed to get episode info", r.err))
       ELSE /\ pc' = "getVideoLink"
            /\ epInfo' = r.info
            /\ UNCHANGED playMsg
    /\ UNCHANGED <<build, cfgProvider, cfgQuality, selectedAnime, prov, cacheAtStart,
                   nResolutions, mirrorVars, homeOK, diskOK, driverVars, qualityVars,
                   decodeVars, writerVars, historyVars, autoplayVars>>

CallAllAnimeGetEpisodeInfo ==
    /\ pc = "getEpisodeInfo"
    /\ prov = "AllAnimeProvider"
    /\ \E ep \in Episodes, search \in AllAnimeSearches :
           ReturnEpisodeInfo(AllAnimeGetEpisodeInfo(Cache, ep, search))

CallAniWorldGetEpisodeInfo ==
    /\ pc = "getEpisodeInfo"
    /\ prov = "AniWorldProvider"
    /\ \E backup \in BackupAnswers, search \in AniWorldSearches, t \in Later(now) :
           ReturnEpisodeInfo(AniWorldGetEpisodeInfo(Cache, homeOK, diskOK,
                                                    selectedAnime.ID, selectedAnime.Title,
                                                    backup, search, t))

CallHDRezkaGetEpisodeInfo ==
    /\ pc = "getEpisodeInfo"
    /\ prov = "HDRezkaProvider"
    /\ \E backup \in BackupAnswers, search \in HDRezkaSearches, t \in Later(now) :
           ReturnEpisodeInfo(HDRezkaGetEpisodeInfo(Cache, homeOK, diskOK,
                                                   selectedAnime.ID, selectedAnime.Title,
                                                   backup, search, t))

CallAniWatchGetEpisodeInfo ==
    /\ pc = "getEpisodeInfo"
    /\ prov = "AniWatchProvider"
    /\ \E backup \in BackupAnswers, episodes \in EpisodeLists :
           ReturnEpisodeInfo(AniWatchGetEpisodeInfo(Cache, backup, episodes))

CallYugenGetEpisodeInfo ==
    /\ pc = "getEpisodeInfo"
    /\ prov = "YugenProvider"
    /\ \E backup \in BackupAnswers, episodes \in EpisodeLists :
           ReturnEpisodeInfo(YugenGetEpisodeInfo(Cache, backup, episodes))

CallCrunchyrollGetEpisodeInfo ==
    /\ pc = "getEpisodeInfo"
    /\ prov = "CrunchyrollProvider"
    /\ \E backup \in BackupAnswers, episodes \in EpisodeLists :
           ReturnEpisodeInfo(CrunchyrollGetEpisodeInfo(Cache, backup, episodes))

\* GetVideoLink has returned r (lines 564-569).
ReturnVideoLink(r) ==
    /\ events' = events \o r.log
    /\ pc' = "done"
    /\ callErr' = [op |-> "GetVideoLink", err |-> r.err]
    /\ playMsg' = IF r.err # NilErr
                  THEN PlayEpisodeResultMsg(NilVideoData,
                                            Wrap("failed to get video link", r.err))
                  ELSE PlayEpisodeResultMsg(r.data, NilErr)

AppFrame ==
    UNCHANGED <<build, cfgProvider, cfgQuality, selectedAnime, prov, epInfo, cacheAtStart,
                nResolutions, cacheVars, driverVars, qualityVars, decodeVars,
                writerVars, historyVars, autoplayVars>>

CallAniWorldGetVideoLink ==
    /\ pc = "getVideoLink"
    /\ prov = "AniWorldProvider"
    /\ \E page \in AniWorldPages :
           ReturnVideoLink(AniWorldGetVideoLink(epInfo, cfgQuality, page))
    /\ AppFrame
    /\ UNCHANGED mirrorVars

CallHDRezkaGetVideoLink ==
    /\ pc = "getVideoLink"
    /\ prov = "HDRezkaProvider"
    /\ \E stream \in HDRezkaStreams :
           ReturnVideoLink(HDRezkaGetVideoLink(epInfo, cfgQuality, stream))
    /\ AppFrame
    /\ UNCHANGED mirrorVars

CallAniWatchGetVideoLink ==
    /\ pc = "getVideoLink"
    /\ prov = "AniWatchProvider"
    /\ \E sources \in AniWatchSources :
           ReturnVideoLink(AniWatchGetVideoLink(epInfo, cfgQuality, sources))
    /\ AppFrame
    /\ UNCHANGED mirrorVars

CallYugenGetVideoLink ==
    /\ pc = "getVideoLink"
    /\ prov = "YugenProvider"
    /\ \E embed \in YugenEmbeds :
           ReturnVideoLink(YugenGetVideoLink(epInfo, cfgQuality, embed))
    /\ AppFrame
    /\ UNCHANGED mirrorVars

CallCrunchyrollGetVideoLink ==
    /\ pc = "getVideoLink"
    /\ prov = "CrunchyrollProvider"
    /\ ReturnVideoLink(CrunchyrollGetVideoLink(epInfo, cfgQuality))
    /\ AppFrame
    /\ UNCHANGED mirrorVars

\* AllAnimeProvider.GetVideoLink up to the start of the five goroutines
\* (lines 252-377).
CallAllAnimeGetVideoLink ==
    /\ pc = "getVideoLink"
    /\ prov = "AllAnimeProvider"
    /\ \E src \in SourceAnswers :
           IF ~src.ok
           THEN /\ ReturnVideoLink(VideoResult(NilVideoData, "failed to execute request",
                                               <<"sourceFetch">>))
                /\ UNCHANGED mirrorVars
           ELSE IF src.null
           THEN /\ ReturnVideoLink(VideoResult(NilVideoData,
                        "no video links found: episode may not exist or source URLs are empty",
                        <<"sourceFetch">>))
                /\ UNCHANGED mirrorVars
           ELSE IF DOMAIN src.names = {}
           THEN /\ ReturnVideoLink(VideoResult(NilVideoData,
                        Wrap("failed to extract links", "no source URLs found in response"),
                        <<"sourceFetch">>))
                /\ UNCHANGED mirrorVars
           ELSE /\ respStr' = src.names
                /\ pending' = 1..NumMirrors
                /\ results' = <<>>
                /\ received' = <<>>
                /\ allLinks' = <<>>
                /\ UNCHANGED <<bodyStr, ctx>>
                /\ events' = Append(events, "sourceFetch")
                /\ pc' = "extractLinks"
                /\ UNCHANGED <<playMsg, callErr>>
    /\ AppFrame

\* What the request of a branch can come back with (lines 514-531): under
\* a context that is done, client.Do returns the context's error.
Requests == IF ctx.done THEN {Body(FALSE, <<>>, TRUE)} ELSE MirrorAnswers

\* f without its entry for k.
Drop(f, k) == IF DOMAIN f = {k} THEN <<>> ELSE [x \in DOMAIN f \ {k} |-> f[x]]

\* Whether the branch of a mirror makes a request (lines 398-455): its source
\* name is in the blob and its id decodes to something.
MakesRequest(num) ==
    /\ ProviderLabel(num) \in DOMAIN respStr
    /\ decodeProviderID(TrimSpace(respStr[ProviderLabel(num)])) # <<>>

\* A goroutine of extractLinks has read the answer to its request (lines
\* 514-533) and has not yet gone on to the links and the playlist (lines
\* 534-637).
ReadBody(num) ==
    /\ pc = "extractLinks"
    /\ num \in pending
    /\ num \notin DOMAIN bodyStr
    /\ MakesRequest(num)
    /\ \E net \in Requests : bodyStr' = (num :> net) @@ bodyStr
    /\ UNCHANGED <<respStr, pending, results, received, allLinks, ctx>>
    /\ UNCHANGED <<pc, playMsg, callErr, events>>
    /\ AppFrame

\* Goroutines that start a failed branch again.
StillRunningRetry(running, num, result) ==
    IF result.err \notin {NilErr, PanicErr} THEN running ELSE running \ {num}

\* The goroutines still running when one has ended (lines 371-376): each is
\* started once by the loop and ends after its send, whatever it sends.
StillRunning(running, num, result) == running \ {num}

\* One goroutine of extractLinks (lines 372-375): it resolves its mirror and
\* sends what it got; a panic in it ends the process.  A branch that has
\* read its answer goes on with that answer.
GenerateLinks(num) ==
    /\ pc = "extractLinks"
    /\ num \in pending
    /\ \E net \in (IF num \in DOMAIN bodyStr THEN {bodyStr[num]} ELSE Requests) :
           LET result == generateLinksForProvider(respStr, num, net)
           IN  /\ IF result.err = PanicErr
                  THEN pc' = "panicked" /\ UNCHANGED results
                  ELSE results' = Append(results, result) /\ UNCHANGED pc
               /\ pending' = StillRunning(pending, num, result)
    /\ bodyStr' = IF num \in DOMAIN bodyStr THEN Drop(bodyStr, num) ELSE bodyStr
    /\ events' = Append(events, "mirror")
    /\ UNCHANGED <<playMsg, callErr, respStr, received, allLinks, ctx>>
    /\ AppFrame

\* A collecting loop that stops at the first result that carries links.
LoopDoneOnSuccess(taken) ==
    \/ Len(taken) = NumMirrors
    \/ \E i \in DOMAIN taken : taken[i].err = NilErr /\ DOMAIN taken[i].links # {}

\* The end of the collecting loop `for i := 0; i < 5; i++` (line 380): five
\* results have been taken.
LoopDone(taken) == Len(taken) = NumMirrors

\* One turn of the collecting loop (lines 379-386); after the fifth result
\* extractLinks and GetVideoLink run to their end (lines 388-393, 314-330).
CollectResult ==
    /\ pc = "extractLinks"
    /\ results # <<>>
    /\ Len(received) < NumMirrors
    /\ LET result == Head(results)
           merged == MergeLinks(allLinks, result)
           taken == Append(received, result)
       IN  /\ results' = Tail(results)
           /\ received' = taken
           /\ allLinks' = merged
           /\ IF ~LoopDone(taken)
              THEN UNCHANGED <<pc, playMsg, callErr, events>>
              ELSE \E order \in RangeOrders(merged) :
                       ReturnVideoLink(AllAnimeReturn(merged, cfgQuality, order))
    /\ UNCHANGED <<respStr, pending, bodyStr, ctx>>
    /\ AppFrame

Next ==
    \/ \E anime \in Animes : FetchAndPlayEpisode(anime)
    \/ CallAllAnimeGetEpisodeInfo
    \/ CallAniWorldGetEpisodeInfo
    \/ CallHDRezkaGetEpisodeInfo
    \/ CallAniWatchGetEpisodeInfo
    \/ CallYugenGetEpisodeInfo
    \/ CallCrunchyrollGetEpisodeInfo
    \/ CallAniWorldGetVideoLink
    \/ CallHDRezkaGetVideoLink
    \/ CallAniWatchGetVideoLink
    \/ CallYugenGetVideoLink
    \/ CallCrunchyrollGetVideoLink
    \/ CallAllAnimeGetVideoLink
    \/ \E num \in 1..NumMirrors : GenerateLinks(num)
    \/ CollectResult

Spec == Init /\ [][Next]_vars

\* The multi-mirror provider alone, with the scheduling its goroutines get:
\* every HTTP request returns, so each started branch runs to its send (the
\* channel holds five results, a send never waits), and the collecting loop
\* takes a result whenever one is in the channel.
InitMirrors == Init /\ cfgProvider = "allanime"

NextMirrors ==
    \/ \E anime \in Animes : FetchAndPlayEpisode(anime)
    \/ CallAllAnimeGetEpisodeInfo
    \/ CallAllAnimeGetVideoLink
    \/ \E num \in 1..NumMirrors : GenerateLinks(num)
    \/ CollectResult

FairMirrors ==
    /\ WF_vars(\E num \in 1..NumMirrors : GenerateLinks(num))
    /\ WF_vars(CollectResult)

SpecMirrors == InitMirrors /\ [][NextMirrors]_vars /\ FairMirrors

---------------------------------------------------------------------------
\* GetVideoLink of the multi-mirror provider called, after a GetEpisodeInfo
\* that found the show, by a caller whose context can be cancelled while the
\* five branches run.

InitCancel ==
    /\ build = "registry"
    /\ cfgProvider = "allanime"
    /\ cfgQuality = L720
    /\ selectedAnime = [nil |-> FALSE, ID |-> 1, Title |-> <<"t">>]
    /\ pc = "getVideoLink"
    /\ prov = "AllAnimeProvider"
    /\ epInfo = EpisodeInfo(EpisodeString(5), <<>>, <<"s">>)
    /\ playMsg = NoMsg
    /\ events = <<"search">>
    /\ cacheAtStart = NoRows
    /\ nResolutions = 1
    /\ callErr = [op |-> "GetEpisodeInfo", err |-> NilErr]
    /\ IdleMirrors
    /\ IdleCache
    /\ IdleDriver
    /\ IdleWriters
    /\ IdleHistory
    /\ IdleAutoplay
    /\ IdleQuality
    /\ IdleDecode

\* Whether a result carries links.
HasLinks(result) == result.err = NilErr /\ DOMAIN result.links # {}

\* Whether some branch has an answer with links: it has sent them, or it
\* has read the answer they are in.
HasContributed ==
    \/ \E i \in DOMAIN results : HasLinks(results[i])
    \/ \E i \in DOMAIN received : HasLinks(received[i])
    \/ \E num \in DOMAIN bodyStr :
           HasLinks(generateLinksForProvider(respStr, num, bodyStr[num]))

\* The caller cancels the context, or its deadline passes, while branches
\* are running.
Cancel ==
    /\ pc = "extractLinks"
    /\ ~ctx.done
    /\ ctx' = [done |-> TRUE, contributed |-> HasContributed]
    /\ UNCHANGED <<respStr, pending, results, received, allLinks, bodyStr>>
    /\ UNCHANGED <<cacheVars, driverVars, qualityVars, decodeVars, appVars, writerVars, historyVars, autoplayVars>>

NextCancel ==
    \/ CallAllAnimeGetVideoLink
    \/ Cancel
    \/ \E num \in 1..NumMirrors : ReadBody(num)
    \/ \E num \in 1..NumMirrors : GenerateLinks(num)
    \/ CollectResult

SpecCancel == InitCancel /\ [][NextCancel]_vars /\ FairMirrors

---------------------------------------------------------------------------
\* Two calls of SaveProviderMapping (cache.go lines 99-126) running at once
\* in one process, as two resolutions started one after the other do.  They
\* share cacheInitialized and cacheFile.  The file is held as bytes here,
\* because a write can leave the end of an older content in place.

Writers == {1, 2}
WriterProvider == "aniworld"
\* Writer w saves media id w.
WriterTitle(w) == IF w = 1 THEN <<>> ELSE <<"t">>

\* The bytes of one row and of a store as SaveTo writes them: the keys of
\* the section in the order they were added.
RowBytes(key, value) == <<key, "=">> \o value \o <<"\n">>

RECURSIVE RowsBytes(_, _)
RowsBytes(rows, keys) ==
    IF keys = <<>> THEN <<>>
    ELSE RowBytes(Head(keys), rows[Head(keys)]) \o RowsBytes(rows, Tail(keys))

WriteToBuffer(secs, keys) ==
    IF WriterProvider \in DOMAIN secs
    THEN <<"[", WriterProvider, "]", "\n">> \o RowsBytes(secs[WriterProvider], keys)
    ELSE <<>>

\* The orders a set of keys can be listed in.
KeyOrders(keys) ==
    {order \in UNION {[1..n -> keys] : n \in {Cardinality(keys)}} :
        \A i, j \in DOMAIN order : i # j => order[i] # order[j]}

KeysOf(secs) == IF WriterProvider \in DOMAIN secs THEN DOMAIN secs[WriterProvider] ELSE {}

\* The stores a cache file of this provider can hold.
WriterValues == {EntryValue(<<"a">>, <<"t", "t">>, ZeroTime),
                 EntryValue(<<"a">>, WriterTitle(1), ZeroTime),
                 EntryValue(<<"a">>, WriterTitle(2), ZeroTime)}
WriterStores ==
    {<<>>} \cup
    {WriterProvider :> rows :
        rows \in UNION {[{KeyOf(m) : m \in K} -> WriterValues] :
                           K \in (SUBSET MediaIDs) \ {{}}}}

\* ini.Load of the file (line 47), and ini.Empty() when there is no file or
\* it cannot be parsed (lines 48-51).
Parses(file) ==
    {so \in UNION {{<<secs, order>> : order \in KeyOrders(KeysOf(secs))} :
                      secs \in WriterStores} :
        WriteToBuffer(so[1], so[2]) = file.data}

LoadIni(file) ==
    IF file.exists /\ Parses(file) # {}
    THEN LET so == CHOOSE x \in Parses(file) : TRUE
         IN  [file |-> IniFile(so[1]), keys |-> so[2]]
    ELSE [file |-> IniFile(<<>>), keys |-> <<>>]

\* A write of buf at the start of a file that holds old.
Overwrite(old, buf) == buf \o SubSeq(old, Len(buf) + 1, Len(old))

\* The files the calls can find: none, one with an older row of media id
\* 1, one with older rows of both.
WriterFiles ==
    { <<>>,
      WriterProvider :> ("1" :> EntryValue(<<"a">>, <<"t", "t">>, ZeroTime)),
      WriterProvider :> (("1" :> EntryValue(<<"a">>, <<"t", "t">>, ZeroTime))
                         @@ ("2" :> EntryValue(<<"a">>, <<"t", "t">>, ZeroTime))) }

\* The process has not touched the cache yet, or has loaded it.
InitWriters ==
    /\ wpc = [w \in Writers |-> "initCache"]
    /\ wbuf = [w \in Writers |-> <<>>]
    /\ \E secs \in WriterFiles : \E order \in KeyOrders(KeysOf(secs)) :
           /\ fileData = [exists |-> secs # <<>>, data |-> WriteToBuffer(secs, order)]
           /\ \/ cacheInitialized = FALSE /\ cacheFile = NilFile /\ keyList = <<>>
              \/ cacheInitialized = TRUE /\ cacheFile = IniFile(secs) /\ keyList = order
    /\ disk = NoDisk
    /\ homeOK = TRUE
    /\ diskOK = TRUE
    /\ now = ZeroTime
    /\ IdleDriver
    /\ IdleQuality
    /\ IdleDecode
    /\ IdleApp
    /\ IdleHistory
    /\ IdleAutoplay

WriterFrame ==
    UNCHANGED <<disk, homeOK, diskOK, now, driverVars, qualityVars, decodeVars, appVars,
                mirrorVars, historyVars, autoplayVars>>

Alive == \A w \in Writers : wpc[w] # "panicked"

\* initCache lines 38-41: the test of the flag, and its setting.
InitFlag(w) ==
    /\ Alive
    /\ wpc[w] = "initCache"
    /\ cacheInitialized' = TRUE
    /\ wpc' = [wpc EXCEPT ![w] = IF cacheInitialized THEN "setValue" ELSE "load"]
    /\ UNCHANGED <<cacheFile, wbuf, keyList, fileData>>
    /\ WriterFrame

\* initCache lines 43-55: the file is read into cacheFile.
InitLoad(w) ==
    /\ Alive
    /\ wpc[w] = "load"
    /\ cacheFile' = LoadIni(fileData).file
    /\ keyList' = LoadIni(fileData).keys
    /\ wpc' = [wpc EXCEPT ![w] = "setValue"]
    /\ UNCHANGED <<cacheInitialized, wbuf, fileData>>
    /\ WriterFrame

\* Lines 104-117: the section is found or made and the key is set, under
\* the lock of the ini file; on a cacheFile that is still nil the call
\* panics and the process ends.
SetValue(w) ==
    /\ Alive
    /\ wpc[w] = "setValue"
    /\ IF cacheFile.nil
       THEN /\ wpc' = [wpc EXCEPT ![w] = "panicked"]
            /\ UNCHANGED <<cacheFile, keyList>>
       ELSE LET secs == cacheFile.sections
                rows == IF WriterProvider \in DOMAIN secs THEN secs[WriterProvider] ELSE <<>>
                value == EntryValue(<<"a">>, WriterTitle(w), now)
            IN  /\ cacheFile' = IniFile((WriterProvider :> ((KeyOf(w) :> value) @@ rows))
                                        @@ secs)
                /\ keyList' = IF KeyOf(w) \in DOMAIN rows
                              THEN keyList
                              ELSE Append(keyList, KeyOf(w))
                /\ wpc' = [wpc EXCEPT ![w] = "writeToBuffer"]
    /\ UNCHANGED <<cacheInitialized, wbuf, fileData>>
    /\ WriterFrame

\* SaveTo (line 125), first part: the store is serialised as it is now.
Serialise(w) ==
    /\ Alive
    /\ wpc[w] = "writeToBuffer"
    /\ wbuf' = [wbuf EXCEPT ![w] = WriteToBuffer(cacheFile.sections, keyList)]
    /\ wpc' = [wpc EXCEPT ![w] = "open"]
    /\ UNCHANGED <<cacheInitialized, cacheFile, keyList, fileData>>
    /\ WriterFrame

\* SaveTo, second part: the file is opened for writing and emptied.
OpenTruncate(w) ==
    /\ Alive
    /\ wpc[w] = "open"
    /\ fileData' = [exists |-> TRUE, data |-> <<>>]
    /\ wpc' = [wpc EXCEPT ![w] = "write"]
    /\ UNCHANGED <<cacheInitialized, cacheFile, wbuf, keyList>>
    /\ WriterFrame

\* SaveTo, third part: the bytes are written from the start of the file.
WriteFile(w) ==
    /\ Alive
    /\ wpc[w] = "write"
    /\ fileData' = [exists |-> TRUE, data |-> Overwrite(fileData.data, wbuf[w])]
    /\ wpc' = [wpc EXCEPT ![w] = "done"]
    /\ UNCHANGED <<cacheInitialized, cacheFile, wbuf, keyList>>
    /\ WriterFrame

NextWriters ==
    \/ \E w \in Writers : InitFlag(w)
    \/ \E w \in Writers : InitLoad(w)
    \/ \E w \in Writers : SetValue(w)
    \/ \E w \in Writers : Serialise(w)
    \/ \E w \in Writers : OpenTruncate(w)
    \/ \E w \in Writers : WriteFile(w)

SpecWriters == InitWriters /\ [][NextWriters]_vars

---------------------------------------------------------------------------
\* Properties of the resolution

\* The cache held a row with a value for the key when the resolution began.
HeldAtStart(provider, mediaID) ==
    \E row \in cacheAtStart.mem : row[1] = provider /\ row[2] = KeyOf(mediaID)

\* The provider-internal id of a stored row: all but its last two fields.
StoredID(provider, mediaID) ==
    LET row == CHOOSE r \in cacheAtStart.mem : r[1] = provider /\ r[2] = KeyOf(mediaID)
        parts == SplitPipe(row[3])
    IN  IF Len(parts) < 3 THEN row[3] ELSE JoinPipe(SubSeq(parts, 1, Len(parts) - 2))

\* C1: whenever GetEpisodeInfo of a provider has returned an EpisodeInfo for
\* a media id the cache held a row for, no search request was issued and the
\* handle (or show id, or media type and handle) is the cached internal id.
C1_CacheHitSkipsSearch ==
    (pc = "getVideoLink" /\ HeldAtStart(Name(prov), selectedAnime.ID))
    => /\ \A i \in DOMAIN events : events[i] # "search"
       /\ LET id == StoredID(Name(prov), selectedAnime.ID)
          IN  \/ epInfo.EpisodeID = id
              \/ epInfo.ShowID = id
              \/ epInfo.MediaType \o <<Pipe>> \o epInfo.EpisodeID = id

\* C2: a resolution that has ended with an error leaves the rows of the
\* cache, in memory and on disk, as they were when it started.
C2_FailedResolutionLeavesCache ==
    (pc = "done" /\ playMsg.Err # NilErr) => CacheRows = cacheAtStart

\* C3: a resolution through allanime of a media id with no cache row that
\* has ended well has issued one search, one source fetch, five mirror
\* attempts, one quality selection and one cache write, in that order.
C3_AllAnimeEventOrder ==
    (/\ pc = "done"
     /\ prov = "AllAnimeProvider"
     /\ playMsg.Err = NilErr
     /\ ~HeldAtStart("allanime", selectedAnime.ID))
    => events = <<"search", "sourceFetch">> \o [i \in 1..NumMirrors |-> "mirror"]
                \o <<"select", "cacheWrite">>

\* The branches whose result holds links, and those that returned an empty
\* map without an error.
Contributing == {i \in DOMAIN received : received[i].err = NilErr /\ DOMAIN received[i].links # {}}
EmptyHanded == {i \in DOMAIN received : received[i].err = NilErr /\ DOMAIN received[i].links = {}}
NoLinksFound ==
    Wrap("failed to get video link",
         Wrap("failed to extract links", "no video links found: all providers failed"))

\* C4: once the five branches have been collected, if exactly one returned
\* a non-empty map and the other four returned empty maps, the merged map
\* is exactly that map and the call has succeeded; and the call has failed
\* with NoLinksFound exactly when no branch contributed a link.
C4_MirrorMerge ==
    Len(received) = NumMirrors
    => /\ (Cardinality(Contributing) = 1 /\ Cardinality(EmptyHanded) = NumMirrors - 1)
          => /\ allLinks = received[CHOOSE i \in Contributing : TRUE].links
             /\ pc = "done"
             /\ playMsg.Err = NilErr
             /\ ~playMsg.VideoData.nil
       /\ (pc = "done" /\ playMsg.Err = NoLinksFound) <=> (Contributing = {})

\* C4 witness: five results collected, one of them the two-label map and
\* four empty maps without error, and the call has succeeded.
C4_Witness ==
    /\ Len(received) = NumMirrors
    /\ Cardinality(Contributing) = 1
    /\ Cardinality(EmptyHanded) = NumMirrors - 1
    /\ DOMAIN allLinks = {L720, L1080}
    /\ pc = "done"
    /\ playMsg.Err = NilErr

\* The names each GetProvider has a case for.
RegisteredNames ==
    IF build = "registry"
    THEN {"allanime", "aniwatch", "yugen", "hdrezka", "aniworld", "crunchyroll"}
    ELSE {"allanime", "aniwatch", "yugen", "hdrezka", "aniworld"}

\* C9: after the lookup of the configured name, a registered name has given
\* a provider whose Name is that name and no error; any other name has given
\* no provider and the unknown-provider error.
C9_RegistryLookup ==
    (nResolutions > 0 /\ ~selectedAnime.nil)
    => IF cfgProvider \in RegisteredNames
       THEN /\ prov # NilProvider
            /\ Name(prov) = cfgProvider
            /\ playMsg.Err # "unknown provider: " \o cfgProvider
       ELSE /\ prov = NilProvider
            /\ pc = "done"
            /\ playMsg.Err = "unknown provider: " \o cfgProvider

\* C9 witness: the lookup of "hdrezka" has returned the hdrezka provider.
C9_Witness ==
    /\ pc = "getEpisodeInfo"
    /\ cfgProvider = "hdrezka"
    /\ prov = "HDRezkaProvider"
    /\ playMsg.Err = NilErr

\* C10: a resolution that has ended without an error carries a descriptor
\* whose videoURL is not empty; one that has ended with an error carries no
\* descriptor.
C10_VideoURLNonEmpty ==
    (pc = "done" /\ playMsg.sent)
    => IF playMsg.Err = NilErr
       THEN ~playMsg.VideoData.nil /\ playMsg.VideoData.VideoURL # <<>>
       ELSE playMsg.VideoData.nil

\* The marks of cache calls that returned an error.
CacheErrs == {"cacheLoadErr", "cacheWriteErr"}

\* C13: a GetEpisodeInfo in which a cache read or a cache write returned an
\* error has itself returned an error.
C13_ErrorsReturned ==
    (callErr.op = "GetEpisodeInfo" /\ \E i \in DOMAIN events : events[i] \in CacheErrs)
    => callErr.err # NilErr

\* C14 as stated: the error the command delivers is the error the failing
\* operation returned, unchanged.
C14_ErrorIdentical ==
    (pc = "done" /\ callErr.err # NilErr)
    => (playMsg.sent /\ playMsg.Err = callErr.err)

\* C14 (amended): the command delivers the error of a failing GetProvider
\* unchanged, and the error of a failing GetEpisodeInfo or GetVideoLink
\* wrapped by Errorf with %w behind the prefix "failed to get episode info: "
\* or "failed to get video link: "; in each case with no video data.
C14_ErrorDelivered ==
    (pc = "done" /\ callErr.err # NilErr)
    => /\ playMsg.sent
       /\ playMsg.VideoData.nil
       /\ playMsg.Err =
            CASE callErr.op = "GetProvider" -> callErr.err
              [] callErr.op = "GetEpisodeInfo" ->
                     "failed to get episode info: " \o callErr.err
              [] callErr.op = "GetVideoLink" ->
                     "failed to get video link: " \o callErr.err

\* C14 witness: GetVideoLink has failed and the command has delivered its
\* error behind the prefix.
C14_Witness ==
    /\ pc = "done"
    /\ callErr.op = "GetVideoLink"
    /\ callErr.err = "failed to execute request"
    /\ playMsg.Err = "failed to get video link: failed to execute request"

\* The results the branches have sent so far, collected or not.
Sent == received \o results

\* C15: once a branch has sent a non-empty map without error, no other
\* branch stops the call, and when the five results have been collected
\* the call has succeeded.
C15_BranchFailuresTolerated ==
    (\E i \in DOMAIN Sent : Sent[i].err = NilErr /\ DOMAIN Sent[i].links # {})
    => /\ pc # "panicked"
       /\ Len(received) = NumMirrors
            => (pc = "done" /\ playMsg.Err = NilErr /\ ~playMsg.VideoData.nil)

\* The call of the multi-mirror provider has returned from extractLinks or
\* past it.
ExtractLinksReturned ==
    /\ prov = "AllAnimeProvider"
    /\ pc = "done"
    /\ callErr.op = "GetVideoLink"
    /\ DOMAIN respStr # {}

\* C16: extractLinks starts five branches, one for each of the five
\* distinct mirror labels, and returns (and the quality is selected) only
\* when all five have sent and all five results have been received.
C16_FanOutJoin ==
    /\ Cardinality({ProviderLabel(n) : n \in 1..NumMirrors}) = 5
    /\ pc = "extractLinks"
         => /\ pending \subseteq 1..NumMirrors
            /\ Cardinality(pending) + Len(Sent) = 5
            /\ Len(received) < 5
            /\ ~playMsg.sent
            /\ \A i \in DOMAIN events : events[i] # "select"
    /\ ExtractLinksReturned
         => /\ pending = {}
            /\ results = <<>>
            /\ Len(received) = 5

\* C16 witness: the first result received carried links, the four after it
\* were received as well, and only then has the call returned.
C16_Witness ==
    /\ ExtractLinksReturned
    /\ Len(received) = 5
    /\ received[1].err = NilErr
    /\ DOMAIN received[1].links # {}
    /\ received[5].err # NilErr
    /\ playMsg.Err = NilErr

\* C17: a GetVideoLink of the multi-mirror provider that has started its
\* five branches eventually returns.
C17_CallReturns == (pc = "extractLinks") ~> (pc = "done")

\* The steps of a call of the multi-mirror provider that runs to its end:
\* the search, the source fetch, the five mirrors, the selection.
FullTrail ==
    <<"search", "sourceFetch">> \o [i \in 1..NumMirrors |-> "mirror"] \o <<"select">>

IsPrefix(s, t) == Len(s) =< Len(t) /\ s = SubSeq(t, 1, Len(s))

\* The stages of the pipeline, read from where the call is and what it has
\* done.
Stage ==
    CASE pc = "getEpisodeInfo" -> "SEARCHING"
      [] pc = "getVideoLink" -> "SHOW_FOUND"
      [] pc \in {"extractLinks", "panicked"} -> "MIRRORS_RESOLVING"
      [] pc = "done" /\ playMsg.Err = NilErr -> "DONE"
      [] OTHER -> "FAILED"

\* What holds of a call of the multi-mirror provider in every state.
PipelineInOrder ==
    (prov = "AllAnimeProvider")
    => /\ IsPrefix(events, FullTrail)
       /\ Stage = "SEARCHING" => events = <<>>
       /\ Stage = "SHOW_FOUND" => events = <<"search">>
       /\ Stage = "MIRRORS_RESOLVING"
            => /\ events = SubSeq(FullTrail, 1, 2 + NumMirrors - Cardinality(pending))
               /\ Len(received) < NumMirrors
       /\ Stage = "DONE"
            => /\ events = FullTrail
               /\ Len(received) = NumMirrors
               /\ DOMAIN allLinks # {}
               /\ ~playMsg.VideoData.nil
       /\ Stage = "FAILED"
            => /\ events # FullTrail
               /\ events # <<>>
               /\ playMsg.VideoData.nil
       /\ callErr.err = "no results found"
            => (Stage = "FAILED" /\ events = <<"search">>)
       /\ callErr.err = "no video links found: episode may not exist or source URLs are empty"
            => (Stage = "FAILED" /\ events = <<"search", "sourceFetch">>)
       /\ (Len(received) = NumMirrors /\ Contributing = {})
            => (Stage = "FAILED" /\ events = SubSeq(FullTrail, 1, 2 + NumMirrors))

\* C18: a call of the multi-mirror provider goes through the search, the
\* source fetch, the five mirrors, the merge and the selection in that
\* order, each once; it fails, from a stage that is not final, on an empty
\* search result, an empty source blob or five mirrors without links; and
\* from DONE or FAILED the only step is the start of the next call.
C18_PipelineOrder ==
    /\ []PipelineInOrder
    /\ [][(prov = "AllAnimeProvider" /\ pc = "done")
            => (nResolutions' = nResolutions + 1 /\ events' = <<>>)]_vars

\* C18 witness: a call has gone through every stage and is DONE.
C18_Witness ==
    /\ prov = "AllAnimeProvider"
    /\ Stage = "DONE"
    /\ events = FullTrail
    /\ Len(received) = NumMirrors

\* C19: when both calls have returned, the file holds the whole store as
\* one of them serialised it.
C19_FileIsOneStore ==
    (\A w \in Writers : wpc[w] = "done")
    => \E w \in Writers : fileData.data = wbuf[w]

\* What holds once the context is done: when no branch had an answer with
\* links by then, none contributes, and a call that has returned has taken
\* five results and returns NoLinksFound.
AfterCancel ==
    (ctx.done /\ ~ctx.contributed)
    => /\ \A i \in DOMAIN Sent : ~HasLinks(Sent[i])
       /\ allLinks = <<>>
       /\ pc = "done" => (Len(received) = NumMirrors /\ playMsg.Err = NoLinksFound)

\* C20: once the context is cancelled with mirror fetches in flight, the
\* branches whose requests are aborted contribute nothing, the collecting
\* loop still receives five results and the call returns, with NoLinksFound
\* when no branch had contributed before.
C20_Cancellation ==
    /\ []AfterCancel
    /\ ctx.done ~> (pc = "done" /\ Len(received) = NumMirrors)

\* The branches of the running call that have ended: each has sent once.
Attempted == (1..NumMirrors) \ pending

\* C21: within one GetVideoLink call of the multi-mirror provider every
\* branch is attempted at most once: the branches that have ended are as
\* many as the results sent, whether they failed or not, and a branch that
\* has ended is not started again before the call returns.
C21_NoRetry ==
    /\ [](pc = "extractLinks" => Cardinality(Attempted) = Len(Sent))
    /\ [][pc = "extractLinks" => pending' \subseteq pending]_vars

\* C21 witness: the call has returned after five results, one of them the
\* error of a failed fetch, and no branch is running.
C21_Witness ==
    /\ prov = "AllAnimeProvider"
    /\ pc = "done"
    /\ Len(received) = NumMirrors
    /\ pending = {}
    /\ \E i \in DOMAIN received : received[i].err = "failed to execute request"

\* What Load(provider, mediaID) returns in the state before a step and in
\* the state after it.
LoadBefore(provider, mediaID) ==
    LoadProviderMapping(cacheInitialized, cacheFile, disk, homeOK, provider, mediaID).out
LoadAfter(provider, mediaID) ==
    LoadProviderMapping(cacheInitialized', cacheFile', disk', homeOK', provider, mediaID).out

\* A Save or a Clear has returned in this step.
SaveOrClearReturns ==
    /\ nOps' = nOps + 1
    /\ lastOp'.op \in {"Save", "Clear"}
    /\ lastOp'.out.kind # "panic"

\* The frame of a Save or Clear of (p, m): Load of every other key returns
\* what it returned before, and after a Clear the Load of (p, m) is absent.
OwnKeyOnly ==
    /\ \A p \in CacheProviders, m \in MediaIDs :
           <<p, m>> # <<lastOp'.provider, lastOp'.mediaID>>
           => LoadAfter(p, m) = LoadBefore(p, m)
    /\ lastOp'.op = "Clear"
         => LoadAfter(lastOp'.provider, lastOp'.mediaID).kind = "absent"

\* C22: Save(p, m, ..) and Clear(p, m) touch only their own key: after
\* either, Load of every other key, the same media id under another provider
\* included, returns the same result as before, and after Clear(p, m) the
\* Load of (p, m) returns absent.
C22_OwnKeyOnly == [][SaveOrClearReturns => OwnKeyOnly]_vars

\* The same for the calls that found or made a store (their initCache did
\* not fail).
C22_OwnKeyOnlyOnStore ==
    [][(SaveOrClearReturns /\ lastOp'.out.err # getCachePath(FALSE)) => OwnKeyOnly]_vars

\* The received results that carry a link for a label, by their place in
\* the order of receipt.
Producers(label) == {i \in Contributing : label \in DOMAIN received[i].links}

\* The largest number of a non-empty set of numbers.
Last(S) == CHOOSE i \in S : \A j \in S : j =< i

\* C24: at every point of the collection the merged map holds the labels
\* the received results produced, each with the URL of the result received
\* last among those that produced it; so a label produced by one branch
\* keeps that branch's URL.
C24_LastReceivedWins ==
    /\ DOMAIN allLinks = UNION {DOMAIN received[i].links : i \in Contributing}
    /\ \A label \in DOMAIN allLinks :
           allLinks[label] = received[Last(Producers(label))].links[label]

\* C24 witness: two received results produced 720 with different URLs, 1080
\* came from one of them only, and the call has returned with the later
\* URL for 720.
C24_Witness ==
    /\ pc = "done"
    /\ Len(received) = NumMirrors
    /\ Cardinality(Producers(L720)) >= 2
    /\ Cardinality(Producers(L1080)) = 1
    /\ \E i \in Producers(L720) :
           received[i].links[L720] # received[Last(Producers(L720))].links[L720]
    /\ allLinks[L720] = received[Last(Producers(L720))].links[L720]

\* Whether a step is in a log of steps.
InLog(step, log) == \E i \in DOMAIN log : log[i] = step

\* GetEpisodeInfo of hdrezka returns in this step, having found nothing in
\* the cache, searched, and written the cache without error.
UncachedHDRezkaSucceeds ==
    /\ pc = "getEpisodeInfo"
    /\ prov = "HDRezkaProvider"
    /\ pc' = "getVideoLink"
    /\ InLog("search", events')
    /\ InLog("cacheWrite", events')
    /\ ~InLog("cacheWriteErr", events')

\* C25: after an uncached hdrezka GetEpisodeInfo for m has succeeded and
\* written the cache, a second GetEpisodeInfo for m, whatever the search
\* would answer, takes the cached path: it issues no search request and
\* returns the EpisodeID and MediaType of the first call.
C25_SecondCallCached ==
    [][UncachedHDRezkaSucceeds
        => \A search \in HDRezkaSearches, t \in Later(now') :
              LET second == HDRezkaGetEpisodeInfo(Cache', homeOK', diskOK',
                                                  selectedAnime.ID, selectedAnime.Title,
                                                  Answer(<<<<"t">>>>), search, t)
              IN  /\ ~InLog("search", second.log)
                  /\ second.err = NilErr
                  /\ second.info.EpisodeID = epInfo'.EpisodeID
                  /\ second.info.MediaType = epInfo'.MediaType]_vars

\* The cache held, when the resolution began, a row for the key that Load
\* returns as an entry.
ValidAtStart(provider, mediaID) ==
    \E row \in cacheAtStart.mem :
        /\ row[1] = provider
        /\ row[2] = KeyOf(mediaID)
        /\ ParseEntry(row[3]).kind = "entry"

\* The HTTP requests of GetEpisodeInfo.
InfoRequests == {"backup", "search"}

\* C26: with a valid cache entry for (provider, m), GetEpisodeInfo of
\* hdrezka and aniworld has, when it returns, issued no HTTP request and
\* succeeded, whatever the upstream requests would answer.
C26_CacheBeforeNetwork ==
    ( /\ callErr.op = "GetEpisodeInfo"
      /\ prov \in {"HDRezkaProvider", "AniWorldProvider"}
      /\ ValidAtStart(Name(prov), selectedAnime.ID) )
    => /\ callErr.err = NilErr
       /\ \A i \in DOMAIN events : events[i] \notin InfoRequests

---------------------------------------------------------------------------
\* The watch history (player/history.go, the version of lines 212-511): a
\* text file of one line per entry, fields separated by tabs.

Tab == "\t"
Newline == "\n"
CarriageReturn == "\r"
Slash == "/"

\* strings.Split(s, sep) for a separator of one character.
RECURSIVE SplitOn(_, _)
SplitOn(s, sep) ==
    IF \A i \in 1..Len(s) : s[i] # sep
    THEN <<s>>
    ELSE LET i == CHOOSE j \in 1..Len(s) :
                      /\ s[j] = sep
                      /\ \A k \in 1..(j - 1) : s[k] # sep
         IN  <<SubSeq(s, 1, i - 1)>> \o SplitOn(SubSeq(s, i + 1, Len(s)), sep)

\* strings.Join(parts, sep)
RECURSIVE JoinOn(_, _)
JoinOn(parts, sep) ==
    IF parts = <<>> THEN <<>>
    ELSE IF Len(parts) = 1 THEN parts[1]
    ELSE parts[1] \o <<sep>> \o JoinOn(Tail(parts), sep)

\* fmt.Sprintf("%d", n) for n >= 0
RECURSIVE FormatInt(_)
FormatInt(n) ==
    IF n < 10 THEN <<Digits[n + 1]>>
    ELSE FormatInt(n \div 10) \o <<Digits[(n % 10) + 1]>>

\* Whether strconv.Atoi(s) returns no error: an optional sign, then digits.
IsInt(s) ==
    LET body == IF s # <<>> /\ Head(s) \in {"+", "-"} THEN Tail(s) ELSE s
    IN  body # <<>> /\ \A i \in 1..Len(body) : IsDigit(body[i])

HistoryEntry(mediaID, progress, episodesTotal, timestamp, duration, lastWatched, title) ==
    [MediaID |-> mediaID, Progress |-> progress, EpisodesTotal |-> episodesTotal,
     Timestamp |-> timestamp, Duration |-> duration, LastWatched |-> lastWatched,
     Title |-> title]

NoHistoryEntry == HistoryEntry(0, 0, 0, <<>>, <<>>, <<>>, <<>>)

\* bufio.Scanner with ScanLines: the lines between the newlines, without a
\* last empty one, each without one trailing carriage return.
DropCR(line) ==
    IF line # <<>> /\ line[Len(line)] = CarriageReturn
    THEN SubSeq(line, 1, Len(line) - 1)
    ELSE line

ScanLines(data) ==
    LET lines == SplitOn(data, Newline)
        kept == IF lines[Len(lines)] = <<>> THEN SubSeq(lines, 1, Len(lines) - 1) ELSE lines
    IN  [i \in DOMAIN kept |-> DropCR(kept[i])]

\* The parse of one line (lines 265-329): [ok, entry]; ok is false for a
\* line the loop skips.
ParseHistoryLine(line) ==
    LET parts == SplitOn(line, Tab)
        progressParts == SplitOn(parts[2], Slash)
    IN  IF \/ Len(parts) < 4
           \/ ~IsInt(parts[1])
           \/ Len(progressParts) < 2
           \/ ~IsInt(progressParts[1])
           \/ ~IsInt(progressParts[2])
        THEN [ok |-> FALSE, entry |-> NoHistoryEntry]
        ELSE [ok |-> TRUE,
              entry |->
                  IF Len(parts) >= 6
                  THEN HistoryEntry(Atoi(parts[1]), Atoi(progressParts[1]),
                                    Atoi(progressParts[2]), parts[3], parts[4], parts[5],
                                    JoinOn(SubSeq(parts, 6, Len(parts)), Tab))
                  ELSE IF Len(parts) >= 5
                  THEN HistoryEntry(Atoi(parts[1]), Atoi(progressParts[1]),
                                    Atoi(progressParts[2]), parts[3], <<>>, parts[4],
                                    JoinOn(SubSeq(parts, 5, Len(parts)), Tab))
                  ELSE HistoryEntry(Atoi(parts[1]), Atoi(progressParts[1]),
                                    Atoi(progressParts[2]), parts[3], <<>>, parts[3],
                                    JoinOn(SubSeq(parts, 4, Len(parts)), Tab))]

RECURSIVE ParseHistoryLines(_)
ParseHistoryLines(lines) ==
    IF lines = <<>> THEN <<>>
    ELSE LET r == ParseHistoryLine(Head(lines))
         IN  (IF r.ok THEN <<r.entry>> ELSE <<>>) \o ParseHistoryLines(Tail(lines))

\* LoadHistoryWithIncognito (lines 236-351): the entries of the file, none
\* when there is no file.
LoadHistoryWithIncognito(file) ==
    IF ~file.exists THEN <<>> ELSE ParseHistoryLines(ScanLines(file.data))

\* The line SaveHistoryEntryWithIncognito writes for an entry (lines 421-429).
FormatEntry(e) ==
    FormatInt(e.MediaID) \o <<Tab>> \o FormatInt(e.Progress) \o <<Slash>>
    \o FormatInt(e.EpisodesTotal) \o <<Tab>> \o e.Timestamp \o <<Tab>> \o e.Duration
    \o <<Tab>> \o e.LastWatched \o <<Tab>> \o e.Title \o <<Newline>>

\* The line DeleteHistoryEntry writes for an entry (lines 476-482): the
\* format of four fields.
FormatEntryShort(e) ==
    FormatInt(e.MediaID) \o <<Tab>> \o FormatInt(e.Progress) \o <<Slash>>
    \o FormatInt(e.EpisodesTotal) \o <<Tab>> \o e.Timestamp \o <<Tab>> \o e.Title
    \o <<Newline>>

RECURSIVE WriteEntries(_)
WriteEntries(entries) ==
    IF entries = <<>> THEN <<>>
    ELSE FormatEntry(Head(entries)) \o WriteEntries(Tail(entries))

RECURSIVE WriteEntriesShort(_)
WriteEntriesShort(entries) ==
    IF entries = <<>> THEN <<>>
    ELSE FormatEntryShort(Head(entries)) \o WriteEntriesShort(Tail(entries))

\* An update that appends without looking for the media id.
UpdateOrAppendAlways(entries, entry) == Append(entries, entry)

\* The loop of lines 388-407: the first entry of the media id is replaced,
\* or the entry is appended.
UpdateOrAppend(entries, entry) ==
    IF \E i \in DOMAIN entries : entries[i].MediaID = entry.MediaID
    THEN LET i == CHOOSE j \in DOMAIN entries :
                      /\ entries[j].MediaID = entry.MediaID
                      /\ \A k \in 1..(j - 1) : entries[k].MediaID # entry.MediaID
         IN  [entries EXCEPT ![i] = entry]
    ELSE Append(entries, entry)

\* SaveHistoryEntryWithIncognito (lines 369-447): [file, err].  os.Create
\* can fail (createOK false); the file is then as it was.
SaveHistoryEntryWithIncognito(file, entry, createOK) ==
    IF ~createOK
    THEN [file |-> file, err |-> "failed to create history file"]
    ELSE [file |-> [exists |-> TRUE,
                    data |-> WriteEntries(UpdateOrAppend(LoadHistoryWithIncognito(file),
                                                         entry))],
          err |-> NilErr]

\* DeleteHistoryEntry (lines 450-491): [file, err].
DeleteHistoryEntry(file, mediaID, createOK) ==
    IF ~createOK
    THEN [file |-> file, err |-> "failed to create history file"]
    ELSE [file |-> [exists |-> TRUE,
                    data |-> WriteEntriesShort(
                                 SelectSeq(LoadHistoryWithIncognito(file),
                                           LAMBDA e : e.MediaID # mediaID))],
          err |-> NilErr]

\* History operations the driver issues in one run.
MaxHistOps == 3

\* Entries the app saves: an episode reached, with or without a duration,
\* under a title with or without a tab in it.
HistoryMediaIDs == {1, 2, 13}
SavedEntries ==
    {HistoryEntry(m, p, 12, <<"0", "0">>, <<>>, <<"w">>, <<"t">>) :
        m \in HistoryMediaIDs, p \in {1, 2}}
    \cup {HistoryEntry(m, 2, 12, <<"0", "0">>, <<"d">>, <<"w">>, <<"a", Tab, "b">>) :
            m \in HistoryMediaIDs}

\* History files a run can start from: none, and one left by the earlier
\* versions of the program, with a line of four fields, a line of five, and
\* a line the loader skips.
HistoryFiles ==
    { NoFile,
      [exists |-> TRUE,
       data |-> <<"1", Tab, "1", Slash, "1", "2", Tab, "0", "0", Tab, "t", Newline>>
                \o <<"x", Newline>>
                \o <<"2", Tab, "2", Slash, "1", "2", Tab, "0", "0", Tab, "w", Tab, "t",
                     CarriageReturn, Newline>>] }

InitHistory ==
    /\ historyFile \in [BOOLEAN -> HistoryFiles]
    /\ historyFile[TRUE] = NoFile
    /\ hLast = NoHistoryOp
    /\ nHist = 0
    /\ IdleAutoplay
    /\ IdleCache
    /\ IdleDriver
    /\ IdleWriters
    /\ IdleQuality
    /\ IdleDecode
    /\ IdleApp

HistoryFrame ==
    UNCHANGED <<cacheVars, driverVars, qualityVars, decodeVars, appVars, mirrorVars,
                writerVars, autoplayVars>>

\* LoadHistoryWithIncognito called by the app.
HistoryLoad(incognito) ==
    /\ nHist < MaxHistOps
    /\ hLast' = [NoHistoryOp EXCEPT !.op = "Load", !.incognito = incognito,
                                    !.entries = LoadHistoryWithIncognito(historyFile[incognito]),
                                    !.before = LoadHistoryWithIncognito(historyFile[FALSE])]
    /\ nHist' = nHist + 1
    /\ UNCHANGED historyFile
    /\ HistoryFrame

\* SaveHistoryEntryWithIncognito called by the app.
HistorySave(entry, incognito, createOK) ==
    /\ nHist < MaxHistOps
    /\ LET r == SaveHistoryEntryWithIncognito(historyFile[incognito], entry, createOK)
       IN  /\ historyFile' = [historyFile EXCEPT ![incognito] = r.file]
           /\ hLast' = [op |-> "Save", incognito |-> incognito, mediaID |-> entry.MediaID,
                        err |-> r.err, entries |-> <<entry>>,
                        before |-> LoadHistoryWithIncognito(historyFile[incognito])]
    /\ nHist' = nHist + 1
    /\ HistoryFrame

\* DeleteHistoryEntry called by the app; it works on the normal history.
HistoryDelete(mediaID, createOK) ==
    /\ nHist < MaxHistOps
    /\ LET r == DeleteHistoryEntry(historyFile[FALSE], mediaID, createOK)
       IN  /\ historyFile' = [historyFile EXCEPT ![FALSE] = r.file]
           /\ hLast' = [op |-> "Delete", incognito |-> FALSE, mediaID |-> mediaID,
                        err |-> r.err, entries |-> <<>>,
                        before |-> LoadHistoryWithIncognito(historyFile[FALSE])]
    /\ nHist' = nHist + 1
    /\ HistoryFrame

NextHistory ==
    \/ \E incognito \in BOOLEAN : HistoryLoad(incognito)
    \/ \E entry \in SavedEntries, incognito \in BOOLEAN, createOK \in BOOLEAN :
           HistorySave(entry, incognito, createOK)
    \/ \E mediaID \in HistoryMediaIDs, createOK \in BOOLEAN : HistoryDelete(mediaID, createOK)

SpecHistory == InitHistory /\ [][NextHistory]_vars

\* What LoadHistory returns now.
Entries(incognito) == LoadHistoryWithIncognito(historyFile[incognito])

\* The entries of a media id, and the entries of the other media ids, in
\* their order.
EntriesOf(entries, mediaID) == SelectSeq(entries, LAMBDA e : e.MediaID = mediaID)
OtherEntries(entries, mediaID) == SelectSeq(entries, LAMBDA e : e.MediaID # mediaID)

Fields(e) == <<e.MediaID, e.Progress, e.EpisodesTotal, e.Timestamp, e.Duration,
               e.LastWatched, e.Title>>

\* C28: after DeleteHistoryEntry(m) has returned without error, LoadHistory
\* returns no entry of m, and the entries of the other media ids with the
\* Progress, EpisodesTotal, Timestamp, Duration, LastWatched and Title they
\* had before.
C28_DeleteLeavesOthers ==
    (hLast.op = "Delete" /\ hLast.err = NilErr)
    => /\ EntriesOf(Entries(FALSE), hLast.mediaID) = <<>>
       /\ LET after == Entries(FALSE)
              before == OtherEntries(hLast.before, hLast.mediaID)
          IN  /\ Len(after) = Len(before)
              /\ \A i \in DOMAIN after : Fields(after[i]) = Fields(before[i])

\* A Load, Save or Clear has ended in this step, by returning or by a panic.
CacheCallEnds ==
    /\ nOps' = nOps + 1
    /\ lastOp'.op \in {"Load", "Save", "Clear"}

\* The store is uninitialised: initCache has run and left cacheFile nil, or
\* it is about to run and getCachePath fails.
InitFailed ==
    \/ cacheInitialized /\ cacheFile.nil
    \/ ~cacheInitialized /\ getCachePath(homeOK) # NilErr

\* C30: when the cache initialisation fails, that call and every later
\* Load, Save and Clear return an error; none runs against the
\* uninitialised store.
C30_FailedInitAlwaysErrors ==
    [][(InitFailed /\ CacheCallEnds) => lastOp'.out.kind = "error"]_vars

---------------------------------------------------------------------------
\* The autoplay flow of main.go: App.Update handles one message at a time;
\* a command it returns runs in a goroutine of its own and reads the App's
\* fields when it runs.

\* fetchAndPlayEpisode commands one run returns.
MaxCommands == 3

\* The anime the user can pick: one of two episodes, one whose total is not
\* known (Episodes nil, written 0).
WatchList == {[nil |-> FALSE, ID |-> 1, Episodes |-> 2],
              [nil |-> FALSE, ID |-> 2, Episodes |-> 0]}

\* a.selectedAnime.Episodes != nil
KnownTotal(anime) == anime.Episodes # 0

\* The block "a.state = StateMainMenu; a.currentModel = a.mainMenu".
ToMainMenu(this) == [this EXCEPT !.state = StateMainMenu, !.currentModel = "mainMenu"]

\* continueFromEntry with showEpisodeSelect false (lines 770-797):
\* [a, fetch, menu, played].
continueFromEntry(this, anime, episode) ==
    LET atLeastOne == IF episode < 1 THEN 1 ELSE episode
        clamped == IF KnownTotal(anime) /\ atLeastOne > anime.Episodes
                   THEN anime.Episodes ELSE atLeastOne
    IN  [a |-> [this EXCEPT !.selectedAnime = anime, !.selectedEp = clamped],
         fetch |-> TRUE, menu |-> FALSE, played |-> FALSE]

\* shouldPromptForAutoplay (lines 801-826); hourPassed is whether the last
\* watch was more than an hour ago.
shouldPromptForAutoplay(this, hourPassed) ==
    IF this.autoplayMode THEN FALSE
    ELSE IF this.lastAnimeID # 0 /\ this.lastAnimeID # this.selectedAnime.ID THEN TRUE
    ELSE IF this.lastAnimeID # 0 /\ hourPassed THEN TRUE
    ELSE this.lastAnimeID = 0

\* playNextEpisode (lines 829-849): [a, fetch, menu, played].
playNextEpisode(this) ==
    LET next == [this EXCEPT !.lastAnimeID = this.selectedAnime.ID,
                             !.selectedEp = this.selectedEp + 1]
    IN  IF KnownTotal(next.selectedAnime) /\ next.selectedEp > next.selectedAnime.Episodes
        THEN [a |-> ToMainMenu([next EXCEPT !.autoplayMode = FALSE]),
              fetch |-> FALSE, menu |-> TRUE, played |-> FALSE]
        ELSE [a |-> next, fetch |-> TRUE, menu |-> FALSE, played |-> FALSE]

\* handlePlayEpisode (lines 572-768): [a, fetch, menu, played].  playerOK is
\* whether GetPlayer and Play succeed, completed is CompletedSuccessful.
handlePlayEpisode(this, playerOK, completed, hourPassed) ==
    IF this.selectedAnime.nil
    THEN [a |-> [this EXCEPT !.err = "no anime selected"],
          fetch |-> FALSE, menu |-> FALSE, played |-> FALSE]
    ELSE IF ~playerOK
    THEN [a |-> [this EXCEPT !.err = "failed to play video"],
          fetch |-> FALSE, menu |-> FALSE, played |-> FALSE]
    ELSE LET hasMoreEpisodes == ~(/\ KnownTotal(this.selectedAnime)
                                  /\ this.selectedEp >= this.selectedAnime.Episodes)
         IN  IF completed /\ hasMoreEpisodes /\ shouldPromptForAutoplay(this, hourPassed)
             THEN [a |-> [this EXCEPT !.state = StateMainMenu, !.currentModel = "prompt"],
                   fetch |-> FALSE, menu |-> FALSE, played |-> TRUE]
             ELSE IF completed /\ hasMoreEpisodes /\ this.autoplayMode
             THEN [playNextEpisode(this) EXCEPT !.played = TRUE]
             ELSE [a |-> ToMainMenu([this EXCEPT !.autoplayMode = FALSE]),
                   fetch |-> FALSE, menu |-> TRUE, played |-> TRUE]

\* The case ui.AutoplayPromptMsg of Update (lines 273-284).
autoplayPromptMsg(this, enableAutoplay) ==
    LET set == [this EXCEPT !.autoplayMode = enableAutoplay]
    IN  IF set.autoplayMode
        THEN playNextEpisode(set)
        ELSE [a |-> ToMainMenu(set), fetch |-> FALSE, menu |-> TRUE, played |-> FALSE]

\* handleBack (lines 851-858).
handleBack(this) ==
    [a |-> ToMainMenu([this EXCEPT !.selectedAnime = NoAnime, !.err = NilErr]),
     fetch |-> FALSE, menu |-> TRUE, played |-> FALSE]

\* The keys of the error screen (lines 207-224).
errorKey(this, key) ==
    IF key = "enter"
    THEN [a |-> [this EXCEPT !.err = NilErr, !.state = StateAnimeList,
                             !.currentModel = "animeList"],
          fetch |-> FALSE, menu |-> FALSE, played |-> FALSE]
    ELSE [a |-> ToMainMenu([this EXCEPT !.err = NilErr]),
          fetch |-> FALSE, menu |-> TRUE, played |-> FALSE]

\* What an Update leaves: the App, the command it returned, and the record
\* of what it did.
Updated(msg, r, origin) ==
    /\ r.fetch => lastUpdate.issued < MaxCommands
    /\ app' = r.a
    /\ cmds' = IF r.fetch THEN [cmds EXCEPT ![origin] = @ + 1] ELSE cmds
    /\ lastUpdate' = [msg |-> msg, menu |-> r.menu,
                      played |-> lastUpdate.played + (IF r.played THEN 1 ELSE 0),
                      issued |-> lastUpdate.issued + (IF r.fetch THEN 1 ELSE 0)]

AutoplayFrame ==
    UNCHANGED <<cacheVars, driverVars, qualityVars, decodeVars, appVars, mirrorVars,
                writerVars, historyVars>>

InitAutoplay ==
    /\ IdleAutoplay
    /\ IdleHistory
    /\ IdleCache
    /\ IdleDriver
    /\ IdleWriters
    /\ IdleQuality
    /\ IdleDecode
    /\ IdleApp

\* "Continue Watching" chosen in the main menu, its entry found.
ContinueWatching(anime, episode) ==
    /\ app.currentModel = "mainMenu"
    /\ app.err = NilErr
    /\ Updated("ContinueWatchingResultMsg", continueFromEntry(app, anime, episode), "menu")
    /\ UNCHANGED <<msgs, started>>
    /\ AutoplayFrame

\* The goroutine of a fetchAndPlayEpisode command (lines 545-568): it reads
\* a.selectedAnime and a.selectedEp now, and sends its result.
RunCommand(origin, ok) ==
    /\ cmds[origin] > 0
    /\ cmds' = [cmds EXCEPT ![origin] = @ - 1]
    /\ IF app.selectedAnime.nil
       THEN /\ msgs' = [msgs EXCEPT !.PlayEpisodeResultErr = @ + 1]
            /\ UNCHANGED started
       ELSE /\ started' = started \cup {[autoplay |-> origin = "autoplay",
                                         ID |-> app.selectedAnime.ID,
                                         episode |-> app.selectedEp,
                                         Episodes |-> app.selectedAnime.Episodes]}
            /\ msgs' = IF ok THEN [msgs EXCEPT !.PlayEpisodeResultMsg = @ + 1]
                             ELSE [msgs EXCEPT !.PlayEpisodeResultErr = @ + 1]
    /\ UNCHANGED <<app, lastUpdate>>
    /\ AutoplayFrame

\* The case PlayEpisodeResultMsg of Update (lines 256-267).
UpdatePlayEpisodeResult(failed) ==
    /\ IF failed
       THEN /\ msgs.PlayEpisodeResultErr > 0
            /\ msgs' = [msgs EXCEPT !.PlayEpisodeResultErr = @ - 1]
            /\ app' = [app EXCEPT !.err = "failed to get episode info"]
       ELSE /\ msgs.PlayEpisodeResultMsg > 0
            /\ msgs' = [msgs EXCEPT !.PlayEpisodeResultMsg = @ - 1, !.PlayVideoMsg = @ + 1]
            /\ app' = app
    /\ lastUpdate' = [lastUpdate EXCEPT !.msg = "PlayEpisodeResultMsg", !.menu = FALSE]
    /\ UNCHANGED <<cmds, started>>
    /\ AutoplayFrame

\* The case PlayVideoMsg of Update (lines 269-271).
UpdatePlayVideo(playerOK, completed, hourPassed) ==
    /\ msgs.PlayVideoMsg > 0
    /\ msgs' = [msgs EXCEPT !.PlayVideoMsg = @ - 1]
    /\ Updated("PlayVideoMsg", handlePlayEpisode(app, playerOK, completed, hourPassed),
               "autoplay")
    /\ UNCHANGED started
    /\ AutoplayFrame

\* A choice made in the autoplay prompt, which stays the current model
\* until something replaces it.
UpdateAutoplayPrompt(enableAutoplay) ==
    /\ app.currentModel = "prompt"
    /\ app.err = NilErr
    /\ Updated("AutoplayPromptMsg", autoplayPromptMsg(app, enableAutoplay), "autoplay")
    /\ UNCHANGED <<msgs, started>>
    /\ AutoplayFrame

\* esc in the autoplay prompt or in the anime list: ui.BackMsg.
UpdateBack ==
    /\ app.currentModel \in {"prompt", "animeList"}
    /\ app.err = NilErr
    /\ Updated("BackMsg", handleBack(app), "menu")
    /\ UNCHANGED <<msgs, started>>
    /\ AutoplayFrame

\* A key on the error screen.
UpdateErrorKey(key) ==
    /\ app.err # NilErr
    /\ Updated("KeyMsg", errorKey(app, key), "menu")
    /\ UNCHANGED <<msgs, started>>
    /\ AutoplayFrame

NextAutoplay ==
    \/ \E anime \in WatchList, episode \in 0..3 : ContinueWatching(anime, episode)
    \/ \E origin \in {"menu", "autoplay"}, ok \in BOOLEAN : RunCommand(origin, ok)
    \/ \E failed \in BOOLEAN : UpdatePlayEpisodeResult(failed)
    \/ \E playerOK \in BOOLEAN, completed \in BOOLEAN, hourPassed \in BOOLEAN :
           UpdatePlayVideo(playerOK, completed, hourPassed)
    \/ \E enableAutoplay \in BOOLEAN : UpdateAutoplayPrompt(enableAutoplay)
    \/ UpdateBack
    \/ \E key \in {"enter", "esc"} : UpdateErrorKey(key)

SpecAutoplay == InitAutoplay /\ [][NextAutoplay]_vars

\* No resolution started by an autoplay command is for an episode beyond
\* the known total of the anime it resolves.
WithinTotal ==
    \A r \in started : (r.autoplay /\ r.Episodes # 0) => r.episode =< r.Episodes

\* The last Update returned to the main menu, after a playback.
BackAtMainMenu == lastUpdate.menu /\ lastUpdate.played > 0

\* C29: in the autoplay flow no resolution is started for an episode number
\* greater than the anime's known episode total, and whenever the app has
\* returned to the main menu after playback, autoplay mode is off.
C29_AutoplayStopsAtTotal ==
    /\ WithinTotal
    /\ BackAtMainMenu => ~app.autoplayMode

\* The same for the returns to the main menu alone.
C29_OffAtMainMenu == BackAtMainMenu => ~app.autoplayMode

\* playNextEpisode adds one to the selected episode; when the result exceeds
\* the known total it switches autoplay off and goes to the main menu
\* without a command.
C29_PlayNextEpisodeStops ==
    \A ep \in 0..MaxCommands, mode \in BOOLEAN, anime \in WatchList :
        LET this == [NewApp EXCEPT !.selectedAnime = anime, !.selectedEp = ep,
                                   !.autoplayMode = mode]
            r == playNextEpisode(this)
        IN  /\ r.a.selectedEp = ep + 1
            /\ (KnownTotal(anime) /\ ep + 1 > anime.Episodes)
                  => (~r.fetch /\ ~r.a.autoplayMode /\ r.a.state = StateMainMenu)

=============================================================================
